---- MODULE Spec2Model ----
(***************************************************************************)
(* A model of the komtek_migration helper scripts (helper_scripts/*.py).   *)
(*                                                                         *)
(* Each script is a batch program over a working directory:                *)
(*   old_dataset/   legacy pipe tables (read only)                         *)
(*   new_dataset/   target pipe tables (read, then rewritten)              *)
(*   sql/           INSERT statements (written)                            *)
(*   maps/          mapping artifacts (read from upstream, written)        *)
(* The state of the model is the content of that directory and             *)
(* the exit status of the last run of a script.                            *)
(*                                                                         *)
(* Spec takes a run of main as one step over the content of the files, all *)
(* of them present.  SpecMain takes a run read by read and write by write  *)
(* over files that may be missing or shorter than their two header lines,  *)
(* and leaves their content out.  SpecCalls takes one call of a function   *)
(* of the scripts on an argument.                                          *)
(*                                                                         *)
(* A Python str is a sequence of characters, each a one-character string   *)
(* (a non-ASCII character is written "U+XXXX").  Optional[int] and         *)
(* Optional[str] are records tagged by k.                                  *)
(***************************************************************************)
EXTENDS Integers, Sequences, FiniteSets, TLC

VARIABLES
    focus,        \* the script whose legacy table this directory holds
    old_dataset,  \* old_dataset/*.txt : table name -> sequence of rows
    new_dataset,  \* new_dataset/*.txt : table name -> sequence of data lines
    sql,          \* sql/*_inserts.sql : table name -> statement
    maps,         \* maps/*.json       : entity name -> mapping artifact
    part_files,   \* base names of the image files of the part directories
    exit,         \* "none" | "ok" | "failed" : how the last run ended
    runs,         \* number of runs so far
    pc,           \* number of reads and writes the run of main has done
    disk,         \* file -> "missing" | "short" | "ok" : what a read finds
    loaded,       \* the files the run has read
    written,      \* the files the run has written
    call,         \* a function of the scripts and its argument
    result        \* what the call returned, or that it raised

vars ==
    <<focus, old_dataset, new_dataset, sql, maps, part_files, exit, runs, pc, disk, loaded,
      written, call, result>>

\* A run of main seen as one step, and seen read by read and write by write.
content == <<old_dataset, new_dataset, sql, maps, part_files, runs>>
progress == <<pc, disk, loaded, written>>
calls == <<call, result>>

----------------------------------------------------------------------------
(* Bounds of the model.                                                    *)

MaxRows == 2
MaxRuns == 2

----------------------------------------------------------------------------
(* Optional values.                                                        *)

None == [k |-> "none", v |-> 0]
Some(n) == [k |-> "int", v |-> n]
Raised == [k |-> "raise", v |-> 0]

NoText == [k |-> "none", t |-> <<>>]
SomeText(t) == [k |-> "text", t |-> t]

OrZero(r) == IF r.k = "int" THEN r.v ELSE 0

----------------------------------------------------------------------------
(* Characters and text.                                                    *)

Digits == <<"0", "1", "2", "3", "4", "5", "6", "7", "8", "9">>

IsDigit(c) == \E i \in 1..10 : Digits[i] = c

DigitVal(c) == (CHOOSE i \in 1..10 : Digits[i] = c) - 1

\* The characters of the model in code point order.
CharOrder ==
    <<" ", "\"", "+", ",", "-", "0", "1", "2", "3", "4", "5", "6", "7", "8",
      "9", "L", "N", "U", "[", "]", "a", "b", "e", "f", "l", "n", "o", "p",
      "r", "s", "u", "x", "{", "}", "U+00DF", "U+00E9", "U+00F8", "U+0301">>

CharCode(c) == CHOOSE i \in 1..Len(CharOrder) : CharOrder[i] = c

NonAscii == {"U+00DF", "U+00E9", "U+00F8", "U+0301"}

RECURSIVE TextLess(_, _)
TextLess(a, b) ==
    IF b = <<>> THEN FALSE
    ELSE IF a = <<>> THEN TRUE
    ELSE IF Head(a) = Head(b) THEN TextLess(Tail(a), Tail(b))
    ELSE CharCode(Head(a)) < CharCode(Head(b))

RECURSIVE lstrip(_)
lstrip(t) == IF t # <<>> /\ Head(t) = " " THEN lstrip(Tail(t)) ELSE t

RECURSIVE rstrip(_)
rstrip(t) ==
    IF t # <<>> /\ t[Len(t)] = " " THEN rstrip(SubSeq(t, 1, Len(t) - 1)) ELSE t

strip(t) == rstrip(lstrip(t))

NULL_VALUES ==
    { <<>>, <<"-">>, <<"N", "U", "L", "L">>, <<"n", "u", "l", "l">>,
      <<"[", "N", "U", "L", "L", "]">> }

clean_value(value) ==
    LET trimmed == strip(value)
    IN  IF trimmed \in NULL_VALUES THEN NoText ELSE SomeText(trimmed)

strip_outer_quotes(value) ==
    LET stripped == strip(value)
    IN  IF Len(stripped) >= 2 /\ Head(stripped) = "\""
           /\ stripped[Len(stripped)] = "\""
        THEN SubSeq(stripped, 2, Len(stripped) - 1)
        ELSE stripped

SUBSTITUTIONS(c) ==
    CASE c = "U+00DF" -> <<"s", "s">>
      [] c = "U+00F8" -> <<"o">>
      [] OTHER -> <<c>>

\* unicodedata.normalize("NFKD", .) on the characters of the model.
NFKD(c) ==
    CASE c = "U+00E9" -> <<"e", "U+0301">>
      [] OTHER -> <<c>>

RECURSIVE translate(_)
translate(t) ==
    IF t = <<>> THEN <<>> ELSE SUBSTITUTIONS(Head(t)) \o translate(Tail(t))

RECURSIVE decompose(_)
decompose(t) == IF t = <<>> THEN <<>> ELSE NFKD(Head(t)) \o decompose(Tail(t))

encode_ascii_ignore(t) == SelectSeq(t, LAMBDA c : c \notin NonAscii)

normalize_text(value) ==
    LET trimmed == strip(value)
    IN  IF trimmed \in NULL_VALUES THEN NoText
        ELSE SomeText(encode_ascii_ignore(decompose(translate(trimmed))))

\* value.replace(",", "")
remove_commas(t) == SelectSeq(t, LAMBDA c : c # ",")

RECURSIVE DigitsValue(_)
DigitsValue(d) ==
    IF d = <<>> THEN 0
    ELSE 10 * DigitsValue(SubSeq(d, 1, Len(d) - 1)) + DigitVal(d[Len(d)])

\* Python's int(str): surrounding blanks, one optional sign, decimal digits;
\* anything else raises ValueError.
py_int(t) ==
    LET s == strip(t)
        signed == s # <<>> /\ Head(s) \in {"-", "+"}
        body == IF signed THEN Tail(s) ELSE s
    IN  IF body # <<>> /\ \A i \in 1..Len(body) : IsDigit(body[i])
        THEN Some(IF s[1] = "-" THEN 0 - DigitsValue(body) ELSE DigitsValue(body))
        ELSE Raised

RECURSIVE NatToText(_)
NatToText(n) ==
    IF n < 10 THEN <<Digits[n + 1]>>
    ELSE NatToText(n \div 10) \o <<Digits[(n % 10) + 1]>>

\* Python's str(int)
py_str(n) == IF n < 0 THEN <<"-">> \o NatToText(0 - n) ELSE NatToText(n)

NullCell == <<"[", "N", "U", "L", "L", "]">>

format_cell(value) == IF value.k = "none" THEN NullCell ELSE py_str(value.v)

\* to_int of analytics_migration / face_lists_migration and parse_int of
\* alpr_lists_migration: a malformed number is reported as None.
to_int(value) ==
    LET cleaned == clean_value(value)
    IN  IF cleaned.k = "none" THEN None
        ELSE LET r == py_int(remove_commas(cleaned.t))
             IN  IF r.k = "raise" THEN None ELSE r

parse_int(value) ==
    LET cleaned == clean_value(value)
    IN  IF cleaned.k = "none" THEN None
        ELSE LET r == py_int(remove_commas(cleaned.t))
             IN  IF r.k = "raise" THEN None ELSE r

\* to_int of streams_migration / event_manager_migration: int() is not
\* guarded, a malformed number raises ValueError to the caller.
streams_to_int(value) ==
    LET cleaned == clean_value(value)
    IN  IF cleaned.k = "none" THEN None ELSE py_int(remove_commas(cleaned.t))

----------------------------------------------------------------------------
(* Sequences, sorting, dictionaries.                                       *)

Range(s) == {s[i] : i \in DOMAIN s}

SeqUpTo(S, n) == UNION {[1..m -> S] : m \in 0..n}

\* The indices of keys in the order Python's stable sort gives them.
RECURSIVE StableOrder(_, _)
StableOrder(keys, todo) ==
    IF todo = {} THEN <<>>
    ELSE LET i == CHOOSE i \in todo :
                    \A j \in todo : keys[i] < keys[j] \/ (keys[i] = keys[j] /\ i <= j)
         IN  <<i>> \o StableOrder(keys, todo \ {i})

\* The sequence as it is given, in place of the sorted one.
sorted_as_given(s, keys) == s

\* sorted(s, key=...) with keys[i] the key of s[i]
sorted(s, keys) ==
    LET order == StableOrder(keys, DOMAIN s)
    IN  [n \in 1..Len(s) |-> s[order[n]]]

RECURSIVE StableOrderText(_, _)
StableOrderText(keys, todo) ==
    IF todo = {} THEN <<>>
    ELSE LET i == CHOOSE i \in todo :
                    \A j \in todo :
                        TextLess(keys[i], keys[j]) \/ (keys[i] = keys[j] /\ i <= j)
         IN  <<i>> \o StableOrderText(keys, todo \ {i})

sorted_text(s, keys) ==
    LET order == StableOrderText(keys, DOMAIN s)
    IN  [n \in 1..Len(s) |-> s[order[n]]]

EmptyDict == [x \in {} |-> 0]

\* {entry["old_id"]: entry["new_id"] for entry in mapped}: a later entry
\* with the same key replaces the earlier one.
RECURSIVE DictOfEntries(_)
DictOfEntries(entries) ==
    IF entries = <<>> THEN EmptyDict
    ELSE LET e == entries[Len(entries)]
         IN  (e.old_id :> e.new_id) @@ DictOfEntries(SubSeq(entries, 1, Len(entries) - 1))

load_id_map(artifact) == DictOfEntries(artifact.mapped)

Max(S) == CHOOSE m \in S : \A x \in S : x <= m

----------------------------------------------------------------------------
(* JSON payloads.                                                          *)

JFail == [k |-> "fail", items |-> <<>>]
JNone == [k |-> "none", items |-> <<>>]

\* The texts between the commas of t.
RECURSIVE SplitCommas(_)
SplitCommas(t) ==
    IF \A i \in DOMAIN t : t[i] # "," THEN <<t>>
    ELSE LET n == CHOOSE i \in DOMAIN t : t[i] = "," /\ \A j \in 1..(i - 1) : t[j] # ","
         IN  <<SubSeq(t, 1, n - 1)>> \o SplitCommas(SubSeq(t, n + 1, Len(t)))

IsNumber(t) == t # <<>> /\ \A i \in DOMAIN t : IsDigit(t[i])

\* json.loads on the payloads of the model: the empty object, an array of
\* numbers, a number, a string (its characters are the items); any other
\* text is a JSONDecodeError.
json_loads(t) ==
    IF t = <<"{", "}">> THEN [k |-> "dict", items |-> <<>>]
    ELSE IF Len(t) >= 2 /\ Head(t) = "\"" /\ t[Len(t)] = "\""
            /\ \A i \in 2..(Len(t) - 1) : t[i] # "\""
    THEN [k |-> "str", items |-> SubSeq(t, 2, Len(t) - 1)]
    ELSE IF t = <<"[", "]">> THEN [k |-> "list", items |-> <<>>]
    ELSE IF Len(t) >= 2 /\ Head(t) = "[" /\ t[Len(t)] = "]"
            /\ \A part \in Range(SplitCommas(SubSeq(t, 2, Len(t) - 1))) : IsNumber(part)
    THEN [k |-> "list",
          items |-> [i \in DOMAIN SplitCommas(SubSeq(t, 2, Len(t) - 1)) |->
                        DigitsValue(SplitCommas(SubSeq(t, 2, Len(t) - 1))[i])]]
    ELSE IF IsNumber(t)
    THEN [k |-> "num", items |-> <<DigitsValue(t)>>]
    ELSE JFail

\* bool(payload)
Truthy(j) ==
    \/ j.k \in {"list", "str"} /\ j.items # <<>>
    \/ j.k = "num" /\ j.items # <<0>>

\* parse_json_field of analytics_migration: both decoding attempts are
\* guarded, an undecodable payload is None.
analytics_parse_json_field(value) ==
    LET cleaned == clean_value(value)
    IN  IF cleaned.k = "none" THEN JNone
        ELSE LET j == json_loads(strip_outer_quotes(cleaned.t))
             IN  IF j.k = "fail" THEN JNone ELSE j

----------------------------------------------------------------------------
(* Files.                                                                  *)

\* A mapping artifact: json {"mapped", "unmapped_old", "unmapped_new"}.
Artifact(mapped, unmapped_old, unmapped_new) ==
    [mapped |-> mapped, unmapped_old |-> unmapped_old, unmapped_new |-> unmapped_new]

NoArtifact == Artifact(<<>>, <<>>, <<>>)

\* An sql file: "insert" is one INSERT statement over rows, "comment" and
\* "empty" are what some writers leave when there is no record.
Statement(kind, rows) == [kind |-> kind, rows |-> rows]

NoStatement == Statement("none", <<>>)

Tables ==
    {"stream_groups", "streams", "analytics_groups", "analytics", "event_manager",
     "alpr_lists", "alpr_list_items", "face_lists", "face_list_items",
     "face_list_items_images"}

MapNames == Tables \cup {"clients", "users"}

----------------------------------------------------------------------------
(* analytics_migration.py                                                  *)

\* parse_existing_dataset: every non-blank data line is kept as it is; a
\* line whose id is not a number is neither parsed nor counted in max_id.
analytics_parse_existing_dataset(lines) ==
    LET ids == [i \in DOMAIN lines |-> py_int(remove_commas(lines[i].id))]
        parsed == SelectSeq([i \in DOMAIN lines |->
                               [id |-> ids[i], plugin_name |-> lines[i].plugin_name]],
                            LAMBDA r : r.id.k = "int")
    IN  [data_lines |-> lines,
         parsed_rows |-> [i \in DOMAIN parsed |->
                            [id |-> parsed[i].id.v, plugin_name |-> parsed[i].plugin_name]],
         max_id |-> Max({0} \cup {parsed[i].id.v : i \in DOMAIN parsed})]

\* load_stream_group_entries: the mapped entries sorted by new_id.
load_stream_group_entries(artifact) ==
    sorted(artifact.mapped, [i \in DOMAIN artifact.mapped |-> artifact.mapped[i].new_id])

\* stream_map = {entry["old_id"]: entry for entry in mapped}
RECURSIVE StreamMapOfEntries(_)
StreamMapOfEntries(entries) ==
    IF entries = <<>> THEN EmptyDict
    ELSE LET e == entries[Len(entries)]
         IN  (e.old_id :> e) @@ StreamMapOfEntries(SubSeq(entries, 1, Len(entries) - 1))

\* sorted(plugin_names) of a set of texts
RECURSIVE SortedTexts(_)
SortedTexts(S) ==
    IF S = {} THEN <<>>
    ELSE LET m == CHOOSE m \in S : \A x \in S : x = m \/ TextLess(m, x)
         IN  <<m>> \o SortedTexts(S \ {m})

\* build_analytics_groups: one group per (plugin name, stream group), ids
\* from 1 in (plugin name, stream group new_id) order.
build_analytics_groups(plugin_names, stream_group_entries) ==
    LET plugins == SortedTexts(plugin_names)
        entries == sorted(stream_group_entries,
                          [i \in DOMAIN stream_group_entries |-> stream_group_entries[i].new_id])
        G == Len(entries)
        groups == [n \in 1..(Len(plugins) * G) |->
                     LET p == ((n - 1) \div G) + 1
                         e == entries[((n - 1) % G) + 1]
                     IN  [id |-> n,
                          old_stream_group_id |-> e.old_id,
                          parent_id |-> e.new_parent_id,
                          plugin_name |-> plugins[p],
                          client_id |-> e.new_client_id,
                          old_client_id |-> e.old_client_id]]
        keys == {<<groups[n].plugin_name, groups[n].old_stream_group_id>> : n \in DOMAIN groups}
    IN  [groups |-> groups,
         group_lookup |-> [key \in keys |->
                             Max({n \in DOMAIN groups :
                                    <<groups[n].plugin_name, groups[n].old_stream_group_id>> = key})]]

\* <text> or ""
OrEmpty(n) == IF n.k = "none" THEN <<>> ELSE n.t

analytics_plugin_name(row) == OrEmpty(normalize_text(strip_outer_quotes(row.plugin_name)))

\* One iteration of the loop of build_analytics_records.
analytics_row_of(acc, row, client_map, stream_map, analytics_group_lookup, old_id, status_text, plugin_name, client_id, stream_id, restrictions) ==
    LET reject(reason) ==
            [acc EXCEPT !.unmapped_old =
                Append(@, [old_id |-> old_id, reason |-> reason,
                           old_client_id |-> client_id, old_stream_id |-> stream_id])]
    IN  IF acc.raised THEN acc
        ELSE IF to_int(status_text) = Some(0 - 1)
        THEN [acc EXCEPT !.unmapped_old =
                Append(@, [old_id |-> old_id, reason |-> "status = -1 (excluded)",
                           old_client_id |-> None, old_stream_id |-> None])]
        ELSE IF client_id.k = "none" \/ client_id.v \notin DOMAIN client_map
        THEN reject("client_id missing from clients mapping")
        ELSE IF stream_id.k = "none" \/ stream_id.v \notin DOMAIN stream_map
        THEN reject("stream_id missing from streams mapping")
        ELSE LET stream_mapping == stream_map[stream_id.v]
                 stream_group_id == stream_mapping.old_parent_id
             IN  IF stream_group_id # 0
                    /\ <<plugin_name, stream_group_id>> \notin DOMAIN analytics_group_lookup
                 THEN reject("analytics group mapping missing for stream group/plugin")
                 ELSE IF Truthy(restrictions)
                 THEN [acc EXCEPT !.raised = TRUE]
                 ELSE [acc EXCEPT
                         !.records = Append(@,
                            [id |-> acc.next_id,
                             old_id |-> old_id,
                             plugin_name |-> plugin_name,
                             status |-> status_text,
                             client_id |-> client_map[client_id.v],
                             old_client_id |-> client_id.v,
                             group_id |-> IF stream_group_id = 0 THEN 0
                                          ELSE analytics_group_lookup[<<plugin_name, stream_group_id>>],
                             old_stream_id |-> stream_id.v,
                             new_stream_id |-> stream_mapping.new_id,
                             old_stream_group_id |-> stream_group_id]),
                         !.next_id = @ + 1]

\* One iteration of the loop of build_analytics_records: the cells of the row are read.
analytics_row(acc, row, client_map, stream_map, analytics_group_lookup) ==
    analytics_row_of(acc,
                     row,
                     client_map,
                     stream_map,
                     analytics_group_lookup,
                     OrZero(to_int(row.id)),
                     strip_outer_quotes(row.status),
                     analytics_plugin_name(row),
                     to_int(row.client_id),
                     to_int(row.stream_id),
                     analytics_parse_json_field(row.restrictions))

RECURSIVE analytics_loop(_, _, _, _, _)
analytics_loop(rows, acc, client_map, stream_map, analytics_group_lookup) ==
    IF rows = <<>> THEN acc
    ELSE analytics_loop(Tail(rows),
                        analytics_row(acc, Head(rows), client_map, stream_map,
                                      analytics_group_lookup),
                        client_map, stream_map, analytics_group_lookup)

\* sorted(rows, key=lambda r: to_int(r.get("id")) or 0)
analytics_sorted_rows(rows) ==
    sorted(rows, [i \in DOMAIN rows |-> OrZero(to_int(rows[i].id))])

build_analytics_records(rows, client_map, stream_map, analytics_group_lookup, starting_id) ==
    LET acc == analytics_loop(analytics_sorted_rows(rows),
                              [records |-> <<>>, unmapped_old |-> <<>>, next_id |-> starting_id,
                               raised |-> FALSE],
                              client_map, stream_map, analytics_group_lookup)
    IN  [raised |-> acc.raised,
         records |-> sorted(acc.records, [i \in DOMAIN acc.records |-> acc.records[i].id]),
         unmapped_old |-> sorted(acc.unmapped_old,
                                 [i \in DOMAIN acc.unmapped_old |-> acc.unmapped_old[i].old_id])]

\* write_analytics_dataset: the existing lines, then one line per record.
write_analytics_dataset(existing_lines, records) ==
    existing_lines \o
    [i \in DOMAIN records |->
        [id |-> format_cell(Some(records[i].id)),
         plugin_name |-> records[i].plugin_name,
         status |-> records[i].status,
         client_id |-> format_cell(Some(records[i].client_id)),
         group_id |-> format_cell(Some(records[i].group_id))]]

\* A statement that leaves the first record out.
write_analytics_sql_skipping_first(records) ==
    Statement("insert",
              [i \in 1..(Len(records) - 1) |->
                 [id |-> records[i + 1].id, status |-> records[i + 1].status,
                  client_id |-> records[i + 1].client_id,
                  group_id |-> records[i + 1].group_id]])

\* write_analytics_sql: one tuple per record, also when there is none.
write_analytics_sql(records) ==
    Statement("insert",
              [i \in DOMAIN records |->
                 [id |-> records[i].id, status |-> records[i].status,
                  client_id |-> records[i].client_id, group_id |-> records[i].group_id]])

write_analytics_mapping(records, unmapped_old, unmapped_new) ==
    Artifact([i \in DOMAIN records |->
                [old_id |-> records[i].old_id,
                 new_id |-> records[i].id,
                 plugin_name |-> records[i].plugin_name,
                 old_client_id |-> records[i].old_client_id,
                 new_client_id |-> records[i].client_id,
                 old_stream_id |-> records[i].old_stream_id,
                 new_stream_id |-> records[i].new_stream_id,
                 old_stream_group_id |-> records[i].old_stream_group_id,
                 new_group_id |-> records[i].group_id,
                 status |-> records[i].status]],
             unmapped_old, unmapped_new)

write_analytics_groups_dataset(groups) ==
    [i \in DOMAIN groups |->
        [id |-> py_str(groups[i].id), parent_id |-> py_str(groups[i].parent_id),
         plugin_name |-> groups[i].plugin_name, client_id |-> py_str(groups[i].client_id)]]

write_analytics_groups_sql(groups) ==
    Statement("insert",
              [i \in DOMAIN groups |->
                 [id |-> groups[i].id, parent_id |-> groups[i].parent_id,
                  plugin_name |-> groups[i].plugin_name, client_id |-> groups[i].client_id]])

write_analytics_groups_mapping(groups) ==
    Artifact([i \in DOMAIN groups |->
                [old_stream_group_id |-> groups[i].old_stream_group_id,
                 new_id |-> groups[i].id,
                 plugin_name |-> groups[i].plugin_name,
                 old_client_id |-> groups[i].old_client_id,
                 new_client_id |-> groups[i].client_id,
                 old_parent_id |-> 0,
                 new_parent_id |-> groups[i].parent_id]],
             <<>>, <<>>)

\* The six writes of main; the exception of build_analytics_records leaves
\* main after the three writes of the analytics groups.
analytics_write(existing, ag_groups, built) ==
    IF built.raised
    THEN /\ new_dataset' = [new_dataset EXCEPT
               !.analytics_groups = write_analytics_groups_dataset(ag_groups)]
         /\ sql' = [sql EXCEPT !.analytics_groups = write_analytics_groups_sql(ag_groups)]
         /\ maps' = [maps EXCEPT
               !.analytics_groups = write_analytics_groups_mapping(ag_groups)]
         /\ exit' = "failed"
    ELSE /\ new_dataset' = [new_dataset EXCEPT
               !.analytics_groups = write_analytics_groups_dataset(ag_groups),
               !.analytics = write_analytics_dataset(existing.data_lines, built.records)]
         /\ sql' = [sql EXCEPT
               !.analytics_groups = write_analytics_groups_sql(ag_groups),
               !.analytics = write_analytics_sql(built.records)]
         /\ maps' = [maps EXCEPT
               !.analytics_groups = write_analytics_groups_mapping(ag_groups),
               !.analytics = write_analytics_mapping(built.records, built.unmapped_old,
                                                     existing.parsed_rows)]
         /\ exit' = "ok"

\* plugin_names of main: the plugin names of the legacy rows and of the
\* existing rows, without the empty one.
analytics_plugin_names(legacy_rows, existing_rows) ==
    ({analytics_plugin_name(legacy_rows[i]) : i \in DOMAIN legacy_rows}
     \cup {OrEmpty(normalize_text(existing_rows[i].plugin_name)) : i \in DOMAIN existing_rows})
    \ {<<>>}

\* main from build_analytics_groups on.
analytics_build(legacy_rows, client_map, stream_map, existing, ag) ==
    analytics_write(existing, ag.groups,
                    build_analytics_records(legacy_rows, client_map, stream_map,
                                            ag.group_lookup, existing.max_id + 1))

\* main from the plugin names on.
analytics_group(legacy_rows, client_map, stream_group_entries, stream_map, existing) ==
    analytics_build(legacy_rows, client_map, stream_map, existing,
                    build_analytics_groups(
                        analytics_plugin_names(legacy_rows, existing.parsed_rows),
                        stream_group_entries))

analytics_main ==
    /\ focus = "analytics"
    /\ runs < MaxRuns
    /\ runs' = runs + 1
    /\ UNCHANGED <<calls, focus, old_dataset, part_files, progress>>
    /\ analytics_group(old_dataset.analytics,
                       load_id_map(maps.clients),
                       load_stream_group_entries(maps.stream_groups),
                       StreamMapOfEntries(maps.streams.mapped),
                       analytics_parse_existing_dataset(new_dataset.analytics))

----------------------------------------------------------------------------
(* event_manager_migration.py                                              *)

\* parse_existing_dataset: only the lines whose id is a number are kept,
\* in id order; to_int of the client_id cell of such a line is not guarded.
event_manager_parse_existing_dataset(lines) ==
    LET ids == [i \in DOMAIN lines |-> py_int(remove_commas(lines[i].id))]
        idx == SelectSeq([i \in DOMAIN lines |-> i], LAMBDA i : ids[i].k = "int")
        parsed_existing == sorted([n \in DOMAIN idx |-> lines[idx[n]]],
                                  [n \in DOMAIN idx |-> ids[idx[n]].v])
    IN  [raised |-> \E n \in DOMAIN parsed_existing :
                        streams_to_int(parsed_existing[n].client_id).k = "raise",
         preserved_lines |-> parsed_existing,
         unmapped_new |-> [n \in DOMAIN parsed_existing |->
                             [new_id |-> py_int(remove_commas(parsed_existing[n].id)).v,
                              new_uuid |-> parsed_existing[n].uuid,
                              reason |-> "pre-existing new_dataset row"]],
         max_id |-> Max({0} \cup {ids[i].v : i \in {j \in DOMAIN lines : ids[j].k = "int"}})]

\* One iteration of the loop of build_records.
event_manager_row_of(acc, row, client_map, cleaned, client_id) ==
    LET old_uuid == IF cleaned.k = "none" THEN NoText
                    ELSE SomeText(strip_outer_quotes(cleaned.t))
    IN  IF acc.raised \/ client_id.k = "raise"
        THEN [acc EXCEPT !.raised = TRUE]
        ELSE IF old_uuid.k = "none"
        THEN [acc EXCEPT !.unmapped_old =
                Append(@, [old_id |-> row.id, old_client_id |-> client_id,
                           reason |-> "missing legacy uuid"])]
        ELSE IF client_id.k = "none" \/ client_id.v \notin DOMAIN client_map
        THEN [acc EXCEPT !.unmapped_old =
                Append(@, [old_id |-> old_uuid.t, old_client_id |-> client_id,
                           reason |-> "client_id missing from clients mapping"])]
        ELSE [acc EXCEPT
                !.records = Append(@, [id |-> acc.next_id,
                                       old_id |-> old_uuid.t,
                                       uuid |-> old_uuid.t,
                                       client_id |-> client_map[client_id.v],
                                       old_client_id |-> client_id.v]),
                !.next_id = @ + 1]

\* One iteration of the loop of build_records: the cells of the row are read.
event_manager_row(acc, row, client_map) ==
    event_manager_row_of(acc,
                         row,
                         client_map,
                         clean_value(row.id),
                         streams_to_int(row.client_id))

RECURSIVE event_manager_loop(_, _, _)
event_manager_loop(rows, acc, client_map) ==
    IF rows = <<>> THEN acc
    ELSE event_manager_loop(Tail(rows), event_manager_row(acc, Head(rows), client_map),
                            client_map)

\* build_records: the rows are taken in file order.
event_manager_build_records(rows, client_map, starting_id) ==
    LET acc == event_manager_loop(rows,
                                  [records |-> <<>>, unmapped_old |-> <<>>,
                                   next_id |-> starting_id, raised |-> FALSE],
                                  client_map)
    IN  [raised |-> acc.raised,
         records |-> sorted(acc.records, [i \in DOMAIN acc.records |-> acc.records[i].id]),
         unmapped_old |-> sorted_text(acc.unmapped_old,
                                      [i \in DOMAIN acc.unmapped_old |->
                                         acc.unmapped_old[i].old_id])]

event_manager_write_new_dataset(existing_lines, records) ==
    existing_lines \o
    [i \in DOMAIN records |->
        [id |-> format_cell(Some(records[i].id)),
         uuid |-> records[i].uuid,
         client_id |-> format_cell(Some(records[i].client_id))]]

\* write_sql: a comment when there is no record.
event_manager_write_sql(records) ==
    IF records = <<>> THEN Statement("comment", <<>>)
    ELSE Statement("insert",
                   [i \in DOMAIN records |->
                      [id |-> records[i].id, uuid |-> records[i].uuid,
                       client_id |-> records[i].client_id]])

event_manager_write_mapping(records, unmapped_old, unmapped_new) ==
    Artifact([i \in DOMAIN records |->
                [old_id |-> records[i].old_id,
                 new_id |-> records[i].id,
                 old_uuid |-> records[i].old_id,
                 new_uuid |-> records[i].uuid,
                 old_client_id |-> records[i].old_client_id,
                 new_client_id |-> records[i].client_id]],
             unmapped_old, unmapped_new)

\* A run that ended in an exception before its first write.
Abort ==
    /\ exit' = "failed"
    /\ runs' = runs + 1
    /\ UNCHANGED <<calls, focus, old_dataset, new_dataset, sql, maps, part_files, progress>>

event_manager_main_write(client_map, existing, legacy_rows, built) ==
    /\ focus = "event_manager"
    /\ runs < MaxRuns
    /\ IF existing.raised \/ built.raised
       THEN Abort
       ELSE /\ new_dataset' = [new_dataset EXCEPT !.event_manager =
                  event_manager_write_new_dataset(existing.preserved_lines, built.records)]
            /\ sql' = [sql EXCEPT !.event_manager = event_manager_write_sql(built.records)]
            /\ maps' = [maps EXCEPT !.event_manager =
                  event_manager_write_mapping(built.records, built.unmapped_old,
                                              existing.unmapped_new)]
            /\ exit' = "ok"
            /\ runs' = runs + 1
            /\ UNCHANGED <<calls, focus, old_dataset, part_files, progress>>

\* main from build_records on.
event_manager_main_build(client_map, existing, legacy_rows) ==
    event_manager_main_write(client_map,
                             existing,
                             legacy_rows,
                             event_manager_build_records(legacy_rows, client_map, existing.max_id + 1))

\* main: the map, the existing dataset and the legacy table are read.
event_manager_main ==
    event_manager_main_build(load_id_map(maps.clients),
                             event_manager_parse_existing_dataset(new_dataset.event_manager),
                             old_dataset.event_manager)

----------------------------------------------------------------------------
(* stream_groups_migration.py                                              *)

\* The cell conversion of parse_pipe_table for id, parent_id and client_id:
\* int(value), not guarded, no thousands separator removed.
stream_groups_cell_int(cell) ==
    IF strip(cell) \in NULL_VALUES THEN None ELSE py_int(strip(cell))

stream_groups_parse_pipe_table(lines) ==
    LET rows == [i \in DOMAIN lines |->
                   [id |-> stream_groups_cell_int(lines[i].id),
                    parent_id |-> stream_groups_cell_int(lines[i].parent_id),
                    client_id |-> stream_groups_cell_int(lines[i].client_id),
                    name |-> IF strip(lines[i].name) \in NULL_VALUES THEN NoText
                             ELSE SomeText(strip(lines[i].name))]]
    IN  [raised |-> \E i \in DOMAIN rows :
                       "raise" \in {rows[i].id.k, rows[i].parent_id.k, rows[i].client_id.k},
         rows |-> rows]

\* list.sort on keys of which one is None raises TypeError as soon as two
\* elements are compared.
SortRaises(keys) == Len(keys) >= 2 /\ \E i \in DOMAIN keys : keys[i].k = "none"

\* One iteration of the loop of build_records.
stream_groups_row_of(acc, row, client_map, client_id, normalized_name) ==
    IF acc.raised THEN acc
    ELSE IF client_id.k = "none" \/ client_id.v \notin DOMAIN client_map
    THEN [acc EXCEPT !.unmapped_old =
            Append(@, [old_id |-> row.id, old_client_id |-> client_id,
                       parent_id |-> row.parent_id,
                       reason |-> "client_id missing from clients mapping"])]
    ELSE IF normalized_name.k = "none"
    THEN [acc EXCEPT !.raised = TRUE]
    ELSE [acc EXCEPT !.records =
            Append(@, [id |-> row.id,
                       old_id |-> row.id,
                       parent_id |-> row.parent_id,
                       old_parent_id |-> row.parent_id,
                       client_id |-> client_map[client_id.v],
                       old_client_id |-> client_id.v,
                       name |-> normalized_name.t])]

\* One iteration of the loop of build_records: the cells of the row are read.
stream_groups_row(acc, row, client_map) ==
    stream_groups_row_of(acc,
                         row,
                         client_map,
                         row.client_id,
                         IF row.name.k = "none" THEN NoText ELSE normalize_text(row.name.t))

RECURSIVE stream_groups_loop(_, _, _)
stream_groups_loop(rows, acc, client_map) ==
    IF rows = <<>> THEN acc
    ELSE stream_groups_loop(Tail(rows), stream_groups_row(acc, Head(rows), client_map),
                            client_map)

stream_groups_build_records(rows, client_map) ==
    LET acc == stream_groups_loop(rows, [records |-> <<>>, unmapped_old |-> <<>>,
                                         raised |-> FALSE], client_map)
        record_keys == [i \in DOMAIN acc.records |-> acc.records[i].id]
        unmapped_keys == [i \in DOMAIN acc.unmapped_old |-> acc.unmapped_old[i].old_id]
        raised == acc.raised \/ SortRaises(record_keys) \/ SortRaises(unmapped_keys)
    IN  [raised |-> raised,
         records |-> IF raised THEN <<>>
                     ELSE sorted(acc.records, [i \in DOMAIN record_keys |-> record_keys[i].v]),
         unmapped_old |-> IF raised THEN <<>>
                          ELSE sorted(acc.unmapped_old,
                                      [i \in DOMAIN unmapped_keys |-> unmapped_keys[i].v])]

\* f"{value}" of an Optional[int]
fstring(value) == IF value.k = "none" THEN <<"N", "o", "n", "e">> ELSE py_str(value.v)

stream_groups_write_new_dataset(records) ==
    [i \in DOMAIN records |->
        [id |-> fstring(records[i].id), parent_id |-> fstring(records[i].parent_id),
         name |-> records[i].name, client_id |-> py_str(records[i].client_id)]]

stream_groups_write_sql(records) ==
    Statement("insert",
              [i \in DOMAIN records |->
                 [id |-> records[i].id, parent_id |-> records[i].parent_id,
                  name |-> records[i].name, client_id |-> records[i].client_id]])

stream_groups_write_mapping(records, unmapped_old) ==
    Artifact([i \in DOMAIN records |->
                [old_id |-> records[i].old_id,
                 new_id |-> records[i].id,
                 name |-> records[i].name,
                 old_client_id |-> records[i].old_client_id,
                 new_client_id |-> records[i].client_id,
                 old_parent_id |-> records[i].old_parent_id,
                 new_parent_id |-> records[i].parent_id]],
             unmapped_old, <<>>)

stream_groups_main_write(client_map, parsed, built) ==
    /\ focus = "stream_groups"
    /\ runs < MaxRuns
    /\ IF parsed.raised \/ built.raised
       THEN Abort
       ELSE /\ new_dataset' = [new_dataset EXCEPT !.stream_groups =
                  stream_groups_write_new_dataset(built.records)]
            /\ sql' = [sql EXCEPT !.stream_groups = stream_groups_write_sql(built.records)]
            /\ maps' = [maps EXCEPT !.stream_groups =
                  stream_groups_write_mapping(built.records, built.unmapped_old)]
            /\ exit' = "ok"
            /\ runs' = runs + 1
            /\ UNCHANGED <<calls, focus, old_dataset, part_files, progress>>

\* main from build_records on.
stream_groups_main_build(client_map, parsed) ==
    stream_groups_main_write(client_map,
                             parsed,
                             stream_groups_build_records(parsed.rows, client_map))

\* main: the map and the legacy table are read.
stream_groups_main ==
    stream_groups_main_build(load_id_map(maps.clients),
                             stream_groups_parse_pipe_table(old_dataset.stream_groups))

----------------------------------------------------------------------------
(* streams_migration.py                                                    *)

\* The unguarded conversions of one iteration of build_records, in the
\* parse_json_field of streams_migration: the second decoding is not
\* guarded, an undecodable payload raises JSONDecodeError.
streams_parse_json_field(value) ==
    IF clean_value(value).k = "none" THEN JNone
    ELSE json_loads(strip_outer_quotes(clean_value(value).t))

\* order the code makes them, up to the branch the row takes.
streams_row_of(acc, row, client_map, stream_group_map, status, old_id, client_id, parent, normalized_name) ==
    LET parent_id == OrZero(parent)
        reject(reason) ==
            [acc EXCEPT !.unmapped_old =
                Append(@, [old_id |-> old_id, old_client_id |-> client_id,
                           old_parent_id |-> parent, reason |-> reason])]
    IN  IF acc.raised \/ status.k = "raise" THEN [acc EXCEPT !.raised = TRUE]
        ELSE IF status = Some(0 - 1)
        THEN IF "raise" \in {old_id.k, client_id.k, parent.k}
             THEN [acc EXCEPT !.raised = TRUE]
             ELSE reject("status = -1 (excluded)")
        ELSE IF client_id.k = "raise" \/ parent.k = "raise"
        THEN [acc EXCEPT !.raised = TRUE]
        ELSE IF client_id.k = "none" \/ client_id.v \notin DOMAIN client_map
        THEN IF old_id.k = "raise" THEN [acc EXCEPT !.raised = TRUE]
             ELSE reject("client_id missing from clients mapping")
        ELSE IF parent_id # 0 /\ parent_id \notin DOMAIN stream_group_map
        THEN IF old_id.k = "raise" THEN [acc EXCEPT !.raised = TRUE]
             ELSE reject("parent_id missing from stream_groups mapping")
        ELSE IF normalized_name.k = "none"
        THEN IF old_id.k = "raise" THEN [acc EXCEPT !.raised = TRUE]
             ELSE reject("name missing after normalization")
        ELSE IF old_id.k = "raise" THEN [acc EXCEPT !.raised = TRUE]
        ELSE [acc EXCEPT !.records =
                Append(@, [id |-> OrZero(old_id),
                           old_id |-> OrZero(old_id),
                           name |-> normalized_name.t,
                           status |-> OrZero(status),
                           client_id |-> client_map[client_id.v],
                           old_client_id |-> client_id.v,
                           parent_id |-> IF parent_id \in DOMAIN stream_group_map
                                         THEN stream_group_map[parent_id] ELSE 0,
                           old_parent_id |-> parent_id])]

\* One iteration of the loop of build_records: the cells of the row are read.
streams_row(acc, row, client_map, stream_group_map) ==
    streams_row_of(acc,
                   row,
                   client_map,
                   stream_group_map,
                   streams_to_int(row.status),
                   streams_to_int(row.id),
                   streams_to_int(row.client_id),
                   streams_to_int(row.parent_id),
                   normalize_text(row.name))

RECURSIVE streams_loop(_, _, _, _)
streams_loop(rows, acc, client_map, stream_group_map) ==
    IF rows = <<>> THEN acc
    ELSE streams_loop(Tail(rows),
                      streams_row(acc, Head(rows), client_map, stream_group_map),
                      client_map, stream_group_map)

\* build_records: file order, then records by id, unmapped by old_id or 0.
streams_build_records(rows, client_map, stream_group_map) ==
    LET acc == streams_loop(rows, [records |-> <<>>, unmapped_old |-> <<>>,
                                   raised |-> FALSE], client_map, stream_group_map)
    IN  [raised |-> acc.raised,
         records |-> sorted(acc.records, [i \in DOMAIN acc.records |-> acc.records[i].id]),
         unmapped_old |-> sorted(acc.unmapped_old,
                                 [i \in DOMAIN acc.unmapped_old |->
                                    OrZero(acc.unmapped_old[i].old_id)])]

streams_write_new_dataset(records) ==
    [i \in DOMAIN records |->
        [id |-> format_cell(Some(records[i].id)),
         name |-> records[i].name,
         status |-> format_cell(Some(records[i].status)),
         client_id |-> format_cell(Some(records[i].client_id)),
         parent_id |-> format_cell(Some(records[i].parent_id))]]

streams_write_sql(records) ==
    Statement("insert",
              [i \in DOMAIN records |->
                 [id |-> records[i].id, name |-> records[i].name,
                  status |-> records[i].status, client_id |-> records[i].client_id,
                  parent_id |-> records[i].parent_id]])

streams_write_mapping(records, unmapped_old) ==
    Artifact([i \in DOMAIN records |->
                [old_id |-> records[i].old_id,
                 new_id |-> records[i].id,
                 name |-> records[i].name,
                 old_client_id |-> records[i].old_client_id,
                 new_client_id |-> records[i].client_id,
                 old_parent_id |-> records[i].old_parent_id,
                 new_parent_id |-> records[i].parent_id,
                 status |-> records[i].status]],
             unmapped_old, <<>>)

streams_main_write(client_map, stream_group_map, legacy_rows, built) ==
    /\ focus = "streams"
    /\ runs < MaxRuns
    /\ IF built.raised
       THEN Abort
       ELSE /\ new_dataset' = [new_dataset EXCEPT !.streams =
                  streams_write_new_dataset(built.records)]
            /\ sql' = [sql EXCEPT !.streams = streams_write_sql(built.records)]
            /\ maps' = [maps EXCEPT !.streams =
                  streams_write_mapping(built.records, built.unmapped_old)]
            /\ exit' = "ok"
            /\ runs' = runs + 1
            /\ UNCHANGED <<calls, focus, old_dataset, part_files, progress>>

\* main from build_records on.
streams_main_build(client_map, stream_group_map, legacy_rows) ==
    streams_main_write(client_map,
                       stream_group_map,
                       legacy_rows,
                       streams_build_records(legacy_rows, client_map, stream_group_map))

\* main: the maps and the legacy table are read.
streams_main ==
    streams_main_build(load_id_map(maps.clients),
                       load_id_map(maps.stream_groups),
                       old_dataset.streams)

----------------------------------------------------------------------------
(* alpr_lists_migration.py                                                 *)

PRESERVE_LIST_IDS == {1}
PRESERVE_ITEM_IDS == {}

\* One turn of the loop of parse_json_field of alpr_lists_migration: the
\* candidate is decoded; an object or array is returned, a string becomes
\* the candidate, a text that does not decode ends the loop.
alpr_peel(state) ==
    IF state.done THEN state
    ELSE IF json_loads(state.candidate).k = "fail" THEN [state EXCEPT !.done = TRUE]
    ELSE IF json_loads(state.candidate).k \in {"dict", "list"}
    THEN [state EXCEPT !.done = TRUE, !.returned = json_loads(state.candidate)]
    ELSE IF json_loads(state.candidate).k = "str"
    THEN [state EXCEPT !.candidate = json_loads(state.candidate).items]
    ELSE state

\* strip_outer_quotes(candidate) or candidate
OrCandidate(candidate) ==
    IF strip_outer_quotes(candidate) = <<>> THEN candidate ELSE strip_outer_quotes(candidate)

\* parse_json_field of alpr_lists_migration after its loop of two turns:
\* what the last decoding gives is returned, None when it fails.
alpr_parse_json_after(state) ==
    IF state.returned.k # "none" THEN state.returned
    ELSE IF json_loads(OrCandidate(state.candidate)).k = "fail" THEN JNone
    ELSE json_loads(OrCandidate(state.candidate))

alpr_parse_json_field(raw) ==
    IF strip(raw) \in NULL_VALUES THEN JNone
    ELSE alpr_parse_json_after(
            alpr_peel(alpr_peel([candidate |-> strip(raw), done |-> FALSE, returned |-> JNone])))

\* The loops of main over the existing lines: a line is preserved when its
\* id is a number of the retention set.
alpr_preserved(lines, preserve_ids) ==
    LET kept == SelectSeq(lines, LAMBDA line :
                    parse_int(line.id).k = "int" /\ parse_int(line.id).v \in preserve_ids)
    IN  [lines |-> kept,
         max_id |-> Max({0} \cup {parse_int(kept[i].id).v : i \in DOMAIN kept}),
         unmapped_new |-> [i \in DOMAIN kept |->
                             [new_id |-> parse_int(kept[i].id),
                              reason |-> "pre-existing new_dataset row"]]]

\* stream_map.setdefault(int(old_stream_id), []).append(int(new_id)) for
\* every entry of the plugin.
RECURSIVE alpr_analytics_loop(_, _)
alpr_analytics_loop(entries, stream_map) ==
    IF entries = <<>> THEN stream_map
    ELSE alpr_analytics_loop(
            Tail(entries),
            IF Head(entries).plugin_name # <<"a", "l", "p", "r">> THEN stream_map
            ELSE IF Head(entries).old_stream_id \in DOMAIN stream_map
            THEN [stream_map EXCEPT ![Head(entries).old_stream_id] =
                     Append(@, Head(entries).new_id)]
            ELSE (Head(entries).old_stream_id :> <<Head(entries).new_id>>) @@ stream_map)

\* The numbers of S in ascending order.
RECURSIVE SortedInts(_)
SortedInts(S) ==
    IF S = {} THEN <<>>
    ELSE LET m == CHOOSE m \in S : \A x \in S : m <= x
         IN  <<m>> \o SortedInts(S \ {m})

\* build_alpr_analytics_map: old stream id -> sorted new ids of the alpr
\* analytics of that stream.
build_alpr_analytics_map(artifact) ==
    [stream_id \in DOMAIN alpr_analytics_loop(artifact.mapped, EmptyDict) |->
        SortedInts(Range(alpr_analytics_loop(artifact.mapped, EmptyDict)[stream_id]))]

\* sorted(set(ids)) leaving the ids as they are
sorted_set_as_given(ids) == ids

\* analytics_ids = sorted(set(analytics_ids))
sorted_set(ids) == SortedInts(Range(ids))

\* analytics_ids.extend(by_stream.get(stream_id, [])) for every stream_id
RECURSIVE extend_all(_, _)
extend_all(stream_ids, by_stream) ==
    IF stream_ids = <<>> THEN <<>>
    ELSE (IF Head(stream_ids) \in DOMAIN by_stream THEN by_stream[Head(stream_ids)] ELSE <<>>)
         \o extend_all(Tail(stream_ids), by_stream)

\* One iteration of the loop of build_list_records.
alpr_list_row_of(acc, row, client_map, analytics_by_stream, old_id, status, old_client_id, streams_raw, list_permissions) ==
    LET stream_ids ==
            IF streams_raw.k = "list" THEN streams_raw.items
            ELSE IF streams_raw.k = "str"
            THEN [i \in DOMAIN SelectSeq(streams_raw.items, IsDigit) |->
                     DigitVal(SelectSeq(streams_raw.items, IsDigit)[i])]
            ELSE <<>>
        analytics_ids == sorted_set(extend_all(stream_ids, analytics_by_stream))
        unmapped_streams == SelectSeq(stream_ids, LAMBDA x : x \notin DOMAIN analytics_by_stream)
    IN  IF acc.raised THEN acc
        ELSE IF status = 0 - 1
        THEN [acc EXCEPT !.unmapped_old =
                Append(@, [old_id |-> old_id, old_client_id |-> old_client_id,
                           reason |-> "status -1"])]
        ELSE IF OrZero(old_client_id) \notin DOMAIN client_map
        THEN [acc EXCEPT !.unmapped_old =
                Append(@, [old_id |-> old_id, old_client_id |-> old_client_id,
                           reason |-> "client_id unmapped"])]
        ELSE IF (streams_raw.k = "num" /\ Truthy(streams_raw)) \/ Truthy(list_permissions)
        THEN [acc EXCEPT !.raised = TRUE]
        ELSE [acc EXCEPT
                !.records = Append(@, [id |-> acc.next_id,
                                       old_id |-> old_id,
                                       analytics_ids |-> analytics_ids,
                                       status |-> status,
                                       client_id |-> client_map[OrZero(old_client_id)],
                                       old_client_id |-> OrZero(old_client_id)]),
                !.mapped = Append(@, [old_id |-> old_id,
                                      new_id |-> acc.next_id,
                                      old_client_id |-> old_client_id,
                                      new_client_id |-> client_map[OrZero(old_client_id)],
                                      analytics_ids |-> analytics_ids,
                                      unmapped_stream_ids |-> unmapped_streams,
                                      status |-> status]),
                !.next_id = @ + 1]

\* One iteration of the loop of build_list_records: the cells of the row are read.
alpr_list_row(acc, row, client_map, analytics_by_stream) ==
    alpr_list_row_of(acc,
                     row,
                     client_map,
                     analytics_by_stream,
                     OrZero(parse_int(row.id)),
                     OrZero(parse_int(row.status)),
                     parse_int(row.client_id),
                     alpr_parse_json_field(row.streams),
                     alpr_parse_json_field(row.list_permissions))

RECURSIVE alpr_list_loop(_, _, _, _)
alpr_list_loop(rows, acc, client_map, analytics_by_stream) ==
    IF rows = <<>> THEN acc
    ELSE alpr_list_loop(Tail(rows),
                        alpr_list_row(acc, Head(rows), client_map, analytics_by_stream),
                        client_map, analytics_by_stream)

\* sorted(legacy_rows, key=lambda r: parse_int(r.get("id")) or 0)
alpr_sorted_rows(rows) ==
    sorted(rows, [i \in DOMAIN rows |-> OrZero(parse_int(rows[i].id))])

build_list_records(legacy_rows, next_id, client_map, analytics_by_stream) ==
    alpr_list_loop(alpr_sorted_rows(legacy_rows),
                   [records |-> <<>>, mapped |-> <<>>, unmapped_old |-> <<>>,
                    next_id |-> next_id, raised |-> FALSE],
                   client_map, analytics_by_stream)

\* One iteration of the loop of build_list_item_records.
alpr_item_row_of(acc, row, list_id_map, client_map, old_id, status, old_list_id, old_client_id) ==
    LET list_key == IF OrZero(old_list_id) = 0 THEN 0 - 1 ELSE old_list_id.v
    IN  IF status = Some(0 - 1)
        THEN [acc EXCEPT !.unmapped_old =
                Append(@, [old_id |-> old_id, old_list_id |-> old_list_id,
                           reason |-> "status -1"])]
        ELSE IF list_key \notin DOMAIN list_id_map
        THEN [acc EXCEPT !.unmapped_old =
                Append(@, [old_id |-> old_id, old_list_id |-> old_list_id,
                           reason |-> "list not migrated"])]
        ELSE IF old_client_id \notin DOMAIN client_map
        THEN [acc EXCEPT !.unmapped_old =
                Append(@, [old_id |-> old_id, old_list_id |-> old_list_id,
                           reason |-> "client_id unmapped"])]
        ELSE [acc EXCEPT
                !.records = Append(@, [id |-> acc.next_id,
                                       old_id |-> old_id,
                                       status |-> status,
                                       list_id |-> list_id_map[list_key],
                                       old_list_id |-> OrZero(old_list_id),
                                       client_id |-> client_map[old_client_id],
                                       old_client_id |-> old_client_id]),
                !.mapped = Append(@, [old_id |-> old_id,
                                      new_id |-> acc.next_id,
                                      old_list_id |-> old_list_id,
                                      new_list_id |-> list_id_map[list_key],
                                      old_client_id |-> old_client_id,
                                      new_client_id |-> client_map[old_client_id],
                                      status |-> status]),
                !.next_id = @ + 1]

\* One iteration of the loop of build_list_item_records: the cells of the row are read.
alpr_item_row(acc, row, list_id_map, client_map) ==
    alpr_item_row_of(acc,
                     row,
                     list_id_map,
                     client_map,
                     OrZero(parse_int(row.id)),
                     parse_int(row.status),
                     parse_int(row.list_id),
                     OrZero(parse_int(row.client_id)))

RECURSIVE alpr_item_loop(_, _, _, _)
alpr_item_loop(rows, acc, list_id_map, client_map) ==
    IF rows = <<>> THEN acc
    ELSE alpr_item_loop(Tail(rows), alpr_item_row(acc, Head(rows), list_id_map, client_map),
                        list_id_map, client_map)

build_list_item_records(legacy_rows, next_id, list_id_map, client_map) ==
    alpr_item_loop(alpr_sorted_rows(legacy_rows),
                   [records |-> <<>>, mapped |-> <<>>, unmapped_old |-> <<>>,
                    next_id |-> next_id],
                   list_id_map, client_map)

write_lists_dataset(existing_lines, records) ==
    existing_lines \o
    [i \in DOMAIN records |->
        [id |-> format_cell(Some(records[i].id)),
         status |-> format_cell(Some(records[i].status)),
         client_id |-> format_cell(Some(records[i].client_id))]]

write_items_dataset(existing_lines, records) ==
    existing_lines \o
    [i \in DOMAIN records |->
        [id |-> format_cell(Some(records[i].id)),
         status |-> format_cell(records[i].status),
         list_id |-> format_cell(Some(records[i].list_id)),
         client_id |-> format_cell(Some(records[i].client_id))]]

\* write_lists_sql: an empty file when there is no record.
write_lists_sql(records) ==
    IF records = <<>> THEN Statement("empty", <<>>)
    ELSE Statement("insert",
                   [i \in DOMAIN records |->
                      [id |-> records[i].id, status |-> records[i].status,
                       client_id |-> records[i].client_id]])

write_items_sql(records) ==
    IF records = <<>> THEN Statement("empty", <<>>)
    ELSE Statement("insert",
                   [i \in DOMAIN records |->
                      [id |-> records[i].id, list_id |-> records[i].list_id,
                       client_id |-> records[i].client_id]])

alpr_main_write(legacy_lists, legacy_items, preserved_lists, preserved_items, client_map, analytics_by_stream, lists, items) ==
    /\ focus = "alpr"
    /\ runs < MaxRuns
    /\ IF lists.raised
       THEN Abort
       ELSE /\ new_dataset' = [new_dataset EXCEPT
                  !.alpr_lists = write_lists_dataset(preserved_lists.lines, lists.records),
                  !.alpr_list_items = write_items_dataset(preserved_items.lines,
                                                          items.records)]
            /\ sql' = [sql EXCEPT
                  !.alpr_lists = write_lists_sql(lists.records),
                  !.alpr_list_items = write_items_sql(items.records)]
            /\ maps' = [maps EXCEPT
                  !.alpr_lists = Artifact(lists.mapped, lists.unmapped_old,
                                          preserved_lists.unmapped_new),
                  !.alpr_list_items = Artifact(items.mapped, items.unmapped_old,
                                               preserved_items.unmapped_new)]
            /\ exit' = "ok"
            /\ runs' = runs + 1
            /\ UNCHANGED <<calls, focus, old_dataset, part_files, progress>>

\* main from build_list_item_records on.
alpr_main_items(legacy_lists, legacy_items, preserved_lists, preserved_items, client_map, analytics_by_stream, lists) ==
    alpr_main_write(legacy_lists,
                    legacy_items,
                    preserved_lists,
                    preserved_items,
                    client_map,
                    analytics_by_stream,
                    lists,
                    build_list_item_records(legacy_items, preserved_items.max_id + 1, load_id_map(Artifact(lists.mapped, <<>>, <<>>)), client_map))

\* main from build_list_records on.
alpr_main_lists(legacy_lists, legacy_items, preserved_lists, preserved_items, client_map, analytics_by_stream) ==
    alpr_main_items(legacy_lists,
                    legacy_items,
                    preserved_lists,
                    preserved_items,
                    client_map,
                    analytics_by_stream,
                    build_list_records(legacy_lists, preserved_lists.max_id + 1, client_map, analytics_by_stream))

\* main: the tables, the existing datasets and the maps are read.
alpr_main ==
    alpr_main_lists(old_dataset.alpr_lists,
                    old_dataset.alpr_list_items,
                    alpr_preserved(new_dataset.alpr_lists, PRESERVE_LIST_IDS),
                    alpr_preserved(new_dataset.alpr_list_items, PRESERVE_ITEM_IDS),
                    load_id_map(maps.clients),
                    build_alpr_analytics_map(maps.analytics))

----------------------------------------------------------------------------
(* face_lists_migration.py                                                 *)

\* parse_existing_dataset: every non-blank data line is kept; only the
\* lines whose id is a number are parsed and counted in max_id.
face_parse_existing_dataset(lines) ==
    LET parsed == SelectSeq(lines, LAMBDA line : py_int(remove_commas(line.id)).k = "int")
    IN  [data_lines |-> lines,
         parsed_rows |-> parsed,
         max_id |-> Max({0} \cup {py_int(remove_commas(parsed[i].id)).v : i \in DOMAIN parsed})]

\* stream_to_analytics[old_stream_id].append(new_id), unless it is there,
\* for every entry of the plugin.
RECURSIVE face_analytics_loop(_, _)
face_analytics_loop(entries, stream_to_analytics) ==
    IF entries = <<>> THEN stream_to_analytics
    ELSE face_analytics_loop(
            Tail(entries),
            IF Head(entries).plugin_name # <<"f", "a", "c", "e">> THEN stream_to_analytics
            ELSE IF Head(entries).old_stream_id \notin DOMAIN stream_to_analytics
            THEN (Head(entries).old_stream_id :> <<Head(entries).new_id>>) @@ stream_to_analytics
            ELSE IF Head(entries).new_id \in Range(stream_to_analytics[Head(entries).old_stream_id])
            THEN stream_to_analytics
            ELSE [stream_to_analytics EXCEPT ![Head(entries).old_stream_id] =
                     Append(@, Head(entries).new_id)])

\* load_face_analytics_by_stream: old stream id -> sorted new ids of the
\* face analytics of that stream.
load_face_analytics_by_stream(artifact) ==
    [stream_id \in DOMAIN face_analytics_loop(artifact.mapped, EmptyDict) |->
        sorted(face_analytics_loop(artifact.mapped, EmptyDict)[stream_id],
               face_analytics_loop(artifact.mapped, EmptyDict)[stream_id])]

\* parse_int_list: the numbers of a JSON array; any other payload is [].
parse_int_list(raw_value) ==
    IF clean_value(raw_value).k = "none" THEN <<>>
    ELSE IF json_loads(strip_outer_quotes(clean_value(raw_value).t)).k = "list"
    THEN json_loads(strip_outer_quotes(clean_value(raw_value).t)).items
    ELSE <<>>

\* One iteration of the loop of build_face_lists.
face_list_row_of(acc, row, client_map, face_analytics_map, old_id, status, old_client_id, streams) ==
    IF old_id.k = "none" THEN acc
    ELSE IF status = 0 - 1
    THEN [acc EXCEPT !.unmapped_old =
            Append(@, [old_id |-> old_id.v, reason |-> "status = -1",
                       old_ref |-> None])]
    ELSE IF old_client_id.k = "none" \/ old_client_id.v \notin DOMAIN client_map
    THEN [acc EXCEPT !.unmapped_old =
            Append(@, [old_id |-> old_id.v, reason |-> "missing client mapping",
                       old_ref |-> old_client_id])]
    ELSE [acc EXCEPT
            !.records = Append(@, [id |-> acc.next_id,
                                   old_id |-> old_id.v,
                                   status |-> status,
                                   client_id |-> client_map[old_client_id.v],
                                   old_client_id |-> old_client_id.v,
                                   analytics_ids |->
                                       sorted_set(extend_all(streams, face_analytics_map))]),
            !.next_id = @ + 1]

\* One iteration of the loop of build_face_lists: the cells of the row are read.
face_list_row(acc, row, client_map, face_analytics_map) ==
    face_list_row_of(acc,
                     row,
                     client_map,
                     face_analytics_map,
                     to_int(row.id),
                     OrZero(to_int(row.status)),
                     to_int(row.client_id),
                     parse_int_list(row.streams))

RECURSIVE face_list_loop(_, _, _, _)
face_list_loop(rows, acc, client_map, face_analytics_map) ==
    IF rows = <<>> THEN acc
    ELSE face_list_loop(Tail(rows),
                        face_list_row(acc, Head(rows), client_map, face_analytics_map),
                        client_map, face_analytics_map)

\* build_face_lists with an allocation that skips the identifier after the
\* highest existing one.
build_face_lists_skipping_one(rows, client_map, face_analytics_map, existing_max_id) ==
    LET acc == face_list_loop(rows, [records |-> <<>>, unmapped_old |-> <<>>,
                                     next_id |-> existing_max_id + 2],
                              client_map, face_analytics_map)
    IN  [records |-> sorted(acc.records, [i \in DOMAIN acc.records |-> acc.records[i].id]),
         unmapped_old |-> acc.unmapped_old]

\* build_face_lists: the rows are taken in file order; unmapped_old is
\* left in that order.
build_face_lists(rows, client_map, face_analytics_map, existing_max_id) ==
    LET acc == face_list_loop(rows, [records |-> <<>>, unmapped_old |-> <<>>,
                                     next_id |-> existing_max_id + 1],
                              client_map, face_analytics_map)
    IN  [records |-> sorted(acc.records, [i \in DOMAIN acc.records |-> acc.records[i].id]),
         unmapped_old |-> acc.unmapped_old]

\* One iteration of the loop of build_face_list_items.
face_item_row_of(acc, row, list_id_map, client_map, old_id, status, old_list_id, old_client_id) ==
    IF old_id.k = "none" THEN acc
    ELSE IF status = 0 - 1
    THEN [acc EXCEPT !.unmapped_old =
            Append(@, [old_id |-> old_id.v, reason |-> "status = -1",
                       old_ref |-> None])]
    ELSE IF old_list_id.k = "none" \/ old_list_id.v \notin DOMAIN list_id_map
    THEN [acc EXCEPT !.unmapped_old =
            Append(@, [old_id |-> old_id.v, reason |-> "missing list mapping",
                       old_ref |-> old_list_id])]
    ELSE IF old_client_id.k = "none" \/ old_client_id.v \notin DOMAIN client_map
    THEN [acc EXCEPT !.unmapped_old =
            Append(@, [old_id |-> old_id.v, reason |-> "missing client mapping",
                       old_ref |-> old_client_id])]
    ELSE [acc EXCEPT
            !.records = Append(@, [id |-> acc.next_id,
                                   old_id |-> old_id.v,
                                   status |-> status,
                                   list_id |-> list_id_map[old_list_id.v],
                                   old_list_id |-> old_list_id.v,
                                   client_id |-> client_map[old_client_id.v],
                                   old_client_id |-> old_client_id.v]),
            !.next_id = @ + 1]

\* One iteration of the loop of build_face_list_items: the cells of the row are read.
face_item_row(acc, row, list_id_map, client_map) ==
    face_item_row_of(acc,
                     row,
                     list_id_map,
                     client_map,
                     to_int(row.id),
                     OrZero(to_int(row.status)),
                     to_int(row.list_id),
                     to_int(row.client_id))

RECURSIVE face_item_loop(_, _, _, _)
face_item_loop(rows, acc, list_id_map, client_map) ==
    IF rows = <<>> THEN acc
    ELSE face_item_loop(Tail(rows), face_item_row(acc, Head(rows), list_id_map, client_map),
                        list_id_map, client_map)

build_face_list_items(rows, list_id_map, client_map, existing_max_id) ==
    LET acc == face_item_loop(rows, [records |-> <<>>, unmapped_old |-> <<>>,
                                     next_id |-> existing_max_id + 1],
                              list_id_map, client_map)
    IN  [records |-> sorted(acc.records, [i \in DOMAIN acc.records |-> acc.records[i].id]),
         unmapped_old |-> acc.unmapped_old]

\* One iteration of the loop of build_face_list_item_images.  file_index
\* is computed once, before the loop: renaming a file that an earlier row
\* has moved raises FileNotFoundError.
face_image_row_of(acc, row, list_item_id_map, item_to_list_map, file_index, list_folder_map, old_id, old_list_item_id, base_name) ==
    IF acc.raised \/ old_id.k = "none" THEN acc
    ELSE IF old_list_item_id.k = "none" \/ old_list_item_id.v \notin DOMAIN list_item_id_map
    THEN [acc EXCEPT !.unmapped_old =
            Append(@, [old_id |-> old_id.v, reason |-> "missing list_item mapping",
                       old_ref |-> old_list_item_id])]
    ELSE IF base_name \notin file_index
    THEN [acc EXCEPT !.unmapped_old =
            Append(@, [old_id |-> old_id.v, reason |-> "source image not found",
                       old_ref |-> old_list_item_id])]
    ELSE IF item_to_list_map[old_list_item_id.v] \notin list_folder_map
    THEN [acc EXCEPT !.unmapped_old =
            Append(@, [old_id |-> old_id.v, reason |-> "list folder missing for item",
                       old_ref |-> old_list_item_id])]
    ELSE IF base_name \in acc.moved
    THEN [acc EXCEPT !.raised = TRUE]
    ELSE [acc EXCEPT
            !.records = Append(@, [id |-> acc.next_id,
                                   old_id |-> old_id.v,
                                   list_item_id |-> list_item_id_map[old_list_item_id.v],
                                   old_list_item_id |-> old_list_item_id.v,
                                   path |-> base_name]),
            !.moved = @ \cup {base_name},
            !.next_id = @ + 1]

\* One iteration of the loop of build_face_list_item_images: the cells of the row are read.
face_image_row(acc, row, list_item_id_map, item_to_list_map, file_index, list_folder_map) ==
    face_image_row_of(acc,
                      row,
                      list_item_id_map,
                      item_to_list_map,
                      file_index,
                      list_folder_map,
                      to_int(row.id),
                      to_int(row.list_item_id),
                      strip_outer_quotes(row.path))

RECURSIVE face_image_loop(_, _, _, _, _, _)
face_image_loop(rows, acc, list_item_id_map, item_to_list_map, file_index, list_folder_map) ==
    IF rows = <<>> THEN acc
    ELSE face_image_loop(Tail(rows),
                         face_image_row(acc, Head(rows), list_item_id_map, item_to_list_map,
                                        file_index, list_folder_map),
                         list_item_id_map, item_to_list_map, file_index, list_folder_map)

build_face_list_item_images(rows, list_item_id_map, item_to_list_map, file_index, list_folder_map, existing_max_id) ==
    LET acc == face_image_loop(rows, [records |-> <<>>, unmapped_old |-> <<>>,
                                      next_id |-> existing_max_id + 1, raised |-> FALSE,
                                      moved |-> {}],
                               list_item_id_map, item_to_list_map, file_index, list_folder_map)
    IN  [raised |-> acc.raised,
         moved |-> acc.moved,
         records |-> sorted(acc.records, [i \in DOMAIN acc.records |-> acc.records[i].id]),
         unmapped_old |-> acc.unmapped_old]

\* A dictionary that resolves every legacy id of the records to 0.
DictOfRecords_resolving_to_zero(records, field) ==
    [old_id \in {records[i].old_id : i \in DOMAIN records} |-> 0]

\* {record.old_id: record.<field> for record in records}
RECURSIVE DictOfRecords(_, _)
DictOfRecords(records, field) ==
    IF records = <<>> THEN EmptyDict
    ELSE LET r == records[Len(records)]
         IN  (r.old_id :> r[field]) @@ DictOfRecords(SubSeq(records, 1, Len(records) - 1), field)

write_face_lists_dataset(existing_lines, records) ==
    existing_lines \o
    [i \in DOMAIN records |->
        [id |-> format_cell(Some(records[i].id)),
         status |-> format_cell(Some(records[i].status)),
         client_id |-> format_cell(Some(records[i].client_id))]]

write_face_list_items_dataset(existing_lines, records) ==
    existing_lines \o
    [i \in DOMAIN records |->
        [id |-> format_cell(Some(records[i].id)),
         status |-> format_cell(Some(records[i].status)),
         list_id |-> format_cell(Some(records[i].list_id)),
         client_id |-> format_cell(Some(records[i].client_id))]]

write_face_list_item_images_dataset(existing_lines, records) ==
    existing_lines \o
    [i \in DOMAIN records |->
        [id |-> format_cell(Some(records[i].id)),
         list_item_id |-> format_cell(Some(records[i].list_item_id)),
         path |-> records[i].path]]

\* write_face_lists_sql, write_face_list_items_sql,
\* write_face_list_items_images_sql: a comment when there is no record.
face_write_sql(records) ==
    IF records = <<>> THEN Statement("comment", <<>>)
    ELSE Statement("insert", [i \in DOMAIN records |-> [id |-> records[i].id]])

face_lists_mapped(records) ==
    [i \in DOMAIN records |->
        [old_id |-> records[i].old_id, new_id |-> records[i].id,
         old_client_id |-> records[i].old_client_id,
         new_client_id |-> records[i].client_id,
         analytics_ids |-> records[i].analytics_ids]]

face_list_items_mapped(records) ==
    [i \in DOMAIN records |->
        [old_id |-> records[i].old_id, new_id |-> records[i].id,
         old_list_id |-> records[i].old_list_id, new_list_id |-> records[i].list_id,
         old_client_id |-> records[i].old_client_id,
         new_client_id |-> records[i].client_id]]

face_list_items_images_mapped(records) ==
    [i \in DOMAIN records |->
        [old_id |-> records[i].old_id, new_id |-> records[i].id,
         old_list_item_id |-> records[i].old_list_item_id,
         new_list_item_id |-> records[i].list_item_id,
         new_path |-> records[i].path]]

\* The writes of main.  The lists and the items are written before the
\* images are built, so they are written when build_face_list_item_images
\* raises.
face_main_write(list_existing, lists, item_existing, items, image_existing, images) ==
    LET lists_and_items_dataset ==
            [new_dataset EXCEPT
               !.face_lists = write_face_lists_dataset(list_existing.data_lines, lists.records),
               !.face_list_items = write_face_list_items_dataset(item_existing.data_lines,
                                                                 items.records)]
        lists_and_items_sql ==
            [sql EXCEPT !.face_lists = face_write_sql(lists.records),
                        !.face_list_items = face_write_sql(items.records)]
        lists_and_items_maps ==
            [maps EXCEPT
               !.face_lists =
                   Artifact(face_lists_mapped(lists.records), lists.unmapped_old,
                            [i \in DOMAIN list_existing.parsed_rows |->
                               [new_id |-> to_int(list_existing.parsed_rows[i].id)]]),
               !.face_list_items =
                   Artifact(face_list_items_mapped(items.records), items.unmapped_old, <<>>)]
    IN  /\ part_files' = part_files \ images.moved
        /\ IF images.raised
           THEN /\ new_dataset' = lists_and_items_dataset
                /\ sql' = lists_and_items_sql
                /\ maps' = lists_and_items_maps
                /\ exit' = "failed"
           ELSE /\ new_dataset' = [lists_and_items_dataset EXCEPT
                      !.face_list_items_images =
                          write_face_list_item_images_dataset(image_existing.data_lines,
                                                              images.records)]
                /\ sql' = [lists_and_items_sql EXCEPT
                      !.face_list_items_images = face_write_sql(images.records)]
                /\ maps' = [lists_and_items_maps EXCEPT
                      !.face_list_items_images =
                          Artifact(face_list_items_images_mapped(images.records),
                                   images.unmapped_old, <<>>)]
                /\ exit' = "ok"

\* main from the images on: item_id_map, item_to_list_map and
\* list_folder_map are made of the records of this run.
face_main_images(list_existing, lists, item_existing, items, image_existing) ==
    face_main_write(list_existing, lists, item_existing, items, image_existing,
                    build_face_list_item_images(
                        old_dataset.face_list_items_images,
                        DictOfRecords(items.records, "id"),
                        DictOfRecords(items.records, "list_id"),
                        part_files,
                        {lists.records[i].id : i \in DOMAIN lists.records},
                        image_existing.max_id))

\* main from the items on: list_id_map is made of the records of this run.
face_main_items(client_map, list_existing, lists, item_existing, image_existing) ==
    face_main_images(list_existing, lists, item_existing,
                     build_face_list_items(old_dataset.face_list_items,
                                           DictOfRecords(lists.records, "id"), client_map,
                                           item_existing.max_id),
                     image_existing)

\* main from the lists on.
face_main_lists(client_map, face_analytics_map, list_existing, item_existing, image_existing) ==
    face_main_items(client_map, list_existing,
                    build_face_lists(old_dataset.face_lists, client_map, face_analytics_map,
                                     list_existing.max_id),
                    item_existing, image_existing)

face_main ==
    /\ focus = "face"
    /\ runs < MaxRuns
    /\ runs' = runs + 1
    /\ UNCHANGED <<calls, focus, old_dataset, progress>>
    /\ face_main_lists(load_id_map(maps.clients),
                       load_face_analytics_by_stream(maps.analytics),
                       face_parse_existing_dataset(new_dataset.face_lists),
                       face_parse_existing_dataset(new_dataset.face_list_items),
                       face_parse_existing_dataset(new_dataset.face_list_items_images))

----------------------------------------------------------------------------
(* The directories a behaviour starts from.                                *)

T0 == <<"0">>
T1 == <<"1">>
T2 == <<"2">>
T3 == <<"3">>
T4 == <<"4">>
TMinus1 == <<"-", "1">>
TEmpty == <<>>
TX == <<"x">>
TA == <<"a">>
TList1 == <<"[", "1", "]">>
TList12 == <<"[", "1", ",", "2", "]">>

EmptyTables == [t \in Tables |-> <<>>]

\* maps/clients.json, maps/users.json: written by the clients and users
\* migrations, which are not part of helper_scripts.
ClientsMap == Artifact(<<[old_id |-> 1, new_id |-> 11]>>, <<>>, <<>>)

UsersMap == Artifact(<<[old_id |-> 1, new_id |-> 21]>>, <<>>, <<>>)

StreamGroupsMap ==
    Artifact(<<[old_id |-> 5, new_id |-> 5, old_parent_id |-> None, new_parent_id |-> 0,
                old_client_id |-> 1, new_client_id |-> 11]>>, <<>>, <<>>)

StreamsMap ==
    Artifact(<<[old_id |-> 1, new_id |-> 1, old_parent_id |-> 0],
               [old_id |-> 2, new_id |-> 2, old_parent_id |-> 5]>>, <<>>, <<>>)

InputMaps ==
    [m \in MapNames |->
        CASE m = "clients" -> ClientsMap
          [] m = "users" -> UsersMap
          [] OTHER -> NoArtifact]

\* The reference columns of a legacy analytics row that resolves.
AnalyticsPlain ==
    [id |-> T1, status |-> T0, client_id |-> T1, stream_id |-> T1, plugin_name |-> TA,
     restrictions |-> NullCell]

\* Rows that resolve or are excluded, under every id cell, and rows of
\* which one cell departs from a resolvable row.
AnalyticsRows ==
    { [AnalyticsPlain EXCEPT !.id = i, !.status = st] :
        i \in {T1, T2, TEmpty}, st \in {T0, TMinus1} }
    \cup
    { [AnalyticsPlain EXCEPT !.id = T2, !.stream_id = T2],
      [AnalyticsPlain EXCEPT !.id = T2, !.client_id = TX],
      [AnalyticsPlain EXCEPT !.id = T2, !.stream_id = T4],
      [AnalyticsPlain EXCEPT !.id = T2, !.stream_id = T2, !.plugin_name = TEmpty],
      [AnalyticsPlain EXCEPT !.id = T2, !.restrictions = TList1] }

MaxExisting == 2

AnalyticsLines ==
    { [id |-> i, plugin_name |-> TA, status |-> T0, client_id |-> <<"1", "1">>,
       group_id |-> T0] : i \in {T1, T3} }

\* No function is called on its own.
NoCall == call = [fn |-> "none"] /\ result = [k |-> "pending"]

InitCommon ==
    /\ NoCall
    /\ sql = [t \in Tables |-> NoStatement]
    /\ exit = "none"
    /\ runs = 0
    /\ pc = 0
    /\ disk = <<>>
    /\ loaded = {}
    /\ written = {}

NoPartFiles == part_files = {}

InitAnalytics ==
    /\ focus = "analytics"
    /\ \E rows \in SeqUpTo(AnalyticsRows, MaxRows) :
         old_dataset = [EmptyTables EXCEPT !.analytics = rows]
    /\ \E lines \in SeqUpTo(AnalyticsLines, MaxExisting) :
         new_dataset = [EmptyTables EXCEPT !.analytics = lines]
    /\ maps = [InputMaps EXCEPT !.stream_groups = StreamGroupsMap, !.streams = StreamsMap]
    /\ NoPartFiles
    /\ InitCommon

TB == <<"b">>

EventManagerRows ==
    { [id |-> i, client_id |-> c] : i \in {TA, TB, TEmpty}, c \in {T1, T2, TX} }

EventManagerLines ==
    { [id |-> i, uuid |-> <<"e">>, client_id |-> <<"1", "1">>] : i \in {T1, T3} }
    \cup { [id |-> TX, uuid |-> <<"e">>, client_id |-> <<"1", "1">>] }

InitEventManager ==
    /\ focus = "event_manager"
    /\ \E rows \in SeqUpTo(EventManagerRows, MaxRows) :
         old_dataset = [EmptyTables EXCEPT !.event_manager = rows]
    /\ \E lines \in SeqUpTo(EventManagerLines, MaxExisting) :
         new_dataset = [EmptyTables EXCEPT !.event_manager = lines]
    /\ maps = InputMaps
    /\ NoPartFiles
    /\ InitCommon

T5 == <<"5">>
T6 == <<"6">>

StreamGroupsRows ==
    { [id |-> i, parent_id |-> TEmpty, client_id |-> c, name |-> TA] :
        i \in {T1, T2, TEmpty}, c \in {T1, T2} }
    \cup { [id |-> T2, parent_id |-> TEmpty, client_id |-> T1, name |-> TEmpty],
           [id |-> T2, parent_id |-> TEmpty, client_id |-> TX, name |-> TA],
           [id |-> T2, parent_id |-> T1, client_id |-> T1, name |-> TA] }

InitStreamGroups ==
    /\ focus = "stream_groups"
    /\ \E rows \in SeqUpTo(StreamGroupsRows, MaxRows) :
         old_dataset = [EmptyTables EXCEPT !.stream_groups = rows]
    /\ new_dataset = EmptyTables
    /\ maps = InputMaps
    /\ NoPartFiles
    /\ InitCommon

StreamsPlain ==
    [id |-> T1, status |-> T0, client_id |-> T1, parent_id |-> TEmpty, name |-> TA]

StreamsRows ==
    { [StreamsPlain EXCEPT !.id = i, !.status = st] :
        i \in {T1, T2, TEmpty}, st \in {T0, TMinus1} }
    \cup
    { [StreamsPlain EXCEPT !.id = T2, !.parent_id = T5],
      [StreamsPlain EXCEPT !.id = T2, !.client_id = T2],
      [StreamsPlain EXCEPT !.id = T2, !.client_id = TX],
      [StreamsPlain EXCEPT !.id = T2, !.parent_id = T6],
      [StreamsPlain EXCEPT !.id = T2, !.name = TEmpty] }

InitStreams ==
    /\ focus = "streams"
    /\ \E rows \in SeqUpTo(StreamsRows, MaxRows) :
         old_dataset = [EmptyTables EXCEPT !.streams = rows]
    /\ new_dataset = EmptyTables
    /\ maps = [InputMaps EXCEPT !.stream_groups = StreamGroupsMap]
    /\ NoPartFiles
    /\ InitCommon

TAlpr == <<"a", "l", "p", "r">>

AlprAnalyticsMap ==
    Artifact(<<[old_stream_id |-> 1, new_id |-> 7, plugin_name |-> TAlpr]>>, <<>>, <<>>)

AlprListRows ==
    { [id |-> T1, status |-> T0, client_id |-> T1, streams |-> TList12,
       list_permissions |-> NullCell],
      [id |-> T2, status |-> T0, client_id |-> T1, streams |-> NullCell,
       list_permissions |-> NullCell],
      [id |-> TEmpty, status |-> T0, client_id |-> T1, streams |-> NullCell,
       list_permissions |-> NullCell],
      [id |-> T1, status |-> TMinus1, client_id |-> T1, streams |-> NullCell,
       list_permissions |-> NullCell],
      [id |-> T2, status |-> T0, client_id |-> T2, streams |-> NullCell,
       list_permissions |-> NullCell],
      [id |-> T2, status |-> T0, client_id |-> T1, streams |-> T5,
       list_permissions |-> NullCell],
      [id |-> T2, status |-> T0, client_id |-> T1, streams |-> NullCell,
       list_permissions |-> TList1] }

AlprItemRows ==
    { [id |-> T1, status |-> T0, list_id |-> T1, client_id |-> T1],
      [id |-> T2, status |-> T0, list_id |-> T2, client_id |-> T1],
      [id |-> TEmpty, status |-> T0, list_id |-> T1, client_id |-> T1],
      [id |-> T1, status |-> TMinus1, list_id |-> T1, client_id |-> T1],
      [id |-> T1, status |-> T0, list_id |-> TEmpty, client_id |-> T1],
      [id |-> T2, status |-> T0, list_id |-> T1, client_id |-> T2] }

AlprListLines ==
    { [id |-> i, status |-> T0, client_id |-> <<"1", "1">>] : i \in {T1, T3} }

AlprItemLines ==
    { [id |-> T1, status |-> T0, list_id |-> T1, client_id |-> <<"1", "1">>] }

\* maps/clients.json with an entry for the legacy id 0.
ClientsMapWithZero ==
    Artifact(<<[old_id |-> 0, new_id |-> 10], [old_id |-> 1, new_id |-> 11]>>, <<>>, <<>>)

\* Legacy rows whose client_id cell is absent or is no number.
AlprListRowsWithoutClient ==
    { [id |-> T1, status |-> T0, client_id |-> c, streams |-> NullCell,
       list_permissions |-> NullCell] : c \in {TEmpty, TX, T1} }

AlprItemRowsWithoutClient ==
    { [id |-> T1, status |-> T0, list_id |-> T1, client_id |-> c] : c \in {TEmpty, TX} }

\* The two legacy tables of the ALPR script hold MaxRows rows together; or
\* they hold rows without a client, read with a clients map that has an
\* entry for 0.
InitAlpr ==
    /\ focus = "alpr"
    /\ \/ /\ \E lists \in SeqUpTo(AlprListRows, MaxRows),
                items \in SeqUpTo(AlprItemRows, MaxRows) :
               /\ Len(lists) + Len(items) <= MaxRows
               /\ old_dataset = [EmptyTables EXCEPT !.alpr_lists = lists,
                                                    !.alpr_list_items = items]
          /\ \E lists \in SeqUpTo(AlprListLines, MaxExisting),
                items \in SeqUpTo(AlprItemLines, MaxExisting) :
               new_dataset = [EmptyTables EXCEPT !.alpr_lists = lists,
                                                 !.alpr_list_items = items]
          /\ maps = [InputMaps EXCEPT !.analytics = AlprAnalyticsMap]
       \/ /\ \E lists \in SeqUpTo(AlprListRowsWithoutClient, MaxRows),
                items \in SeqUpTo(AlprItemRowsWithoutClient, MaxRows) :
               /\ Len(lists) + Len(items) <= MaxRows
               /\ old_dataset = [EmptyTables EXCEPT !.alpr_lists = lists,
                                                    !.alpr_list_items = items]
          /\ new_dataset = EmptyTables
          /\ maps = [InputMaps EXCEPT !.analytics = AlprAnalyticsMap,
                                      !.clients = ClientsMapWithZero]
    /\ NoPartFiles
    /\ InitCommon

TP == <<"p">>
TQ == <<"q">>

TFace == <<"f", "a", "c", "e">>

\* maps/analytics.json: the face analytics 9 and 8 of stream 1.
FaceAnalyticsMap ==
    Artifact(<<[old_stream_id |-> 1, new_id |-> 9, plugin_name |-> TFace],
               [old_stream_id |-> 1, new_id |-> 8, plugin_name |-> TFace]>>, <<>>, <<>>)

FaceListRows ==
    { [id |-> T1, status |-> T0, client_id |-> T1, streams |-> TList12],
      [id |-> T2, status |-> T0, client_id |-> T1, streams |-> NullCell],
      [id |-> TEmpty, status |-> TMinus1, client_id |-> T1, streams |-> NullCell],
      [id |-> T1, status |-> TMinus1, client_id |-> T1, streams |-> NullCell],
      [id |-> T2, status |-> T0, client_id |-> T2, streams |-> NullCell] }

FaceItemRows ==
    { [id |-> T1, status |-> T0, list_id |-> T1, client_id |-> T1],
      [id |-> T2, status |-> T0, list_id |-> T1, client_id |-> T1],
      [id |-> TEmpty, status |-> T0, list_id |-> T1, client_id |-> T1],
      [id |-> T1, status |-> T0, list_id |-> T3, client_id |-> T1] }

FaceImageRows ==
    { [id |-> T1, list_item_id |-> T1, path |-> TP],
      [id |-> T2, list_item_id |-> T1, path |-> TP],
      [id |-> T1, list_item_id |-> T1, path |-> TQ] }

FaceListLines == { [id |-> T3, status |-> T0, client_id |-> <<"1", "1">>] }

MaxFaceRows == 3

\* The three legacy tables of the face script hold MaxFaceRows rows
\* together, or a list, an item of it and MaxRows images.
InitFace ==
    /\ focus = "face"
    /\ \/ \E lists \in SeqUpTo(FaceListRows, MaxFaceRows),
             items \in SeqUpTo(FaceItemRows, MaxFaceRows),
             images \in SeqUpTo(FaceImageRows, MaxFaceRows) :
            /\ Len(lists) + Len(items) + Len(images) <= MaxFaceRows
            /\ old_dataset = [EmptyTables EXCEPT !.face_lists = lists,
                                                 !.face_list_items = items,
                                                 !.face_list_items_images = images]
       \/ \E images \in SeqUpTo(FaceImageRows, MaxRows) :
            old_dataset = [EmptyTables EXCEPT
                             !.face_lists = <<[id |-> T1, status |-> T0, client_id |-> T1,
                                               streams |-> NullCell]>>,
                             !.face_list_items = <<[id |-> T1, status |-> T0, list_id |-> T1,
                                                    client_id |-> T1]>>,
                             !.face_list_items_images = images]
    /\ \E lists \in SeqUpTo(FaceListLines, MaxExisting) :
         new_dataset = [EmptyTables EXCEPT !.face_lists = lists]
    /\ maps = [InputMaps EXCEPT !.analytics = FaceAnalyticsMap]
    /\ part_files = {TP}
    /\ InitCommon

Init ==
    \/ InitStreamGroups
    \/ InitStreams
    \/ InitAnalytics
    \/ InitEventManager
    \/ InitAlpr
    \/ InitFace

Next ==
    \/ stream_groups_main
    \/ streams_main
    \/ analytics_main
    \/ event_manager_main
    \/ alpr_main
    \/ face_main

Spec == Init /\ [][Next]_vars

----------------------------------------------------------------------------
(* main of each script, read by read and write by write.                   *)

MaxFaults == 2

Scripts ==
    {"stream_groups", "streams", "analytics", "event_manager", "alpr", "face", "assets"}

\* json.loads(path.read_text()) of a mapping artifact
load_map(name) == [op |-> "load_map", file |-> <<"maps", name>>]

\* parse_pipe_table of a legacy table
parse_pipe_table(name) == [op |-> "parse_pipe_table", file |-> <<"old_dataset", name>>]

\* parse_existing_dataset of a target dataset
parse_existing_dataset(name) ==
    [op |-> "parse_existing_dataset", file |-> <<"new_dataset", name>>]

\* load_stream_details reads the streams dataset and raises on a missing header
load_stream_details == [op |-> "parse_existing_dataset", file |-> <<"new_dataset", "streams">>]

\* path.write_text
write(dir, name) == [op |-> "write", file |-> <<dir, name>>]

stream_groups_main_steps ==
    << load_map("clients"),
       parse_pipe_table("stream_groups"),
       write("new_dataset", "stream_groups"),
       write("sql", "stream_groups"),
       write("maps", "stream_groups") >>

streams_main_steps ==
    << load_map("clients"),
       load_map("stream_groups"),
       load_map("users"),
       parse_pipe_table("streams"),
       write("new_dataset", "streams"),
       write("sql", "streams"),
       write("maps", "streams") >>

analytics_main_steps ==
    << load_map("clients"),
       load_map("stream_groups"),
       load_map("streams"),
       load_map("users"),
       load_stream_details,
       parse_pipe_table("analytics"),
       parse_existing_dataset("analytics"),
       write("new_dataset", "analytics_groups"),
       write("sql", "analytics_groups"),
       write("maps", "analytics_groups"),
       write("new_dataset", "analytics"),
       write("sql", "analytics"),
       write("maps", "analytics") >>

event_manager_main_steps ==
    << load_map("clients"),
       parse_existing_dataset("event_manager"),
       parse_pipe_table("event_manager"),
       write("new_dataset", "event_manager"),
       write("sql", "event_manager"),
       write("maps", "event_manager") >>

\* main of the ALPR script with the lists dataset written before the maps
\* are loaded.
alpr_main_steps_writing_first ==
    << parse_pipe_table("alpr_lists"),
       parse_pipe_table("alpr_list_items"),
       parse_existing_dataset("alpr_lists"),
       parse_existing_dataset("alpr_list_items"),
       write("new_dataset", "alpr_lists"),
       load_map("clients"),
       load_map("users"),
       load_map("analytics"),
       write("new_dataset", "alpr_list_items"),
       write("sql", "alpr_lists"),
       write("sql", "alpr_list_items"),
       write("maps", "alpr_lists"),
       write("maps", "alpr_list_items") >>

alpr_main_steps ==
    << parse_pipe_table("alpr_lists"),
       parse_pipe_table("alpr_list_items"),
       parse_existing_dataset("alpr_lists"),
       parse_existing_dataset("alpr_list_items"),
       load_map("clients"),
       load_map("users"),
       load_map("analytics"),
       write("new_dataset", "alpr_lists"),
       write("new_dataset", "alpr_list_items"),
       write("sql", "alpr_lists"),
       write("sql", "alpr_list_items"),
       write("maps", "alpr_lists"),
       write("maps", "alpr_list_items") >>

face_main_steps ==
    << load_map("clients"),
       load_map("users"),
       load_map("analytics"),
       parse_pipe_table("face_lists"),
       parse_existing_dataset("face_lists"),
       write("new_dataset", "face_lists"),
       write("sql", "face_lists"),
       write("maps", "face_lists"),
       parse_pipe_table("face_list_items"),
       parse_existing_dataset("face_list_items"),
       write("new_dataset", "face_list_items"),
       write("sql", "face_list_items"),
       write("maps", "face_list_items"),
       parse_pipe_table("face_list_items_images"),
       parse_existing_dataset("face_list_items_images"),
       write("new_dataset", "face_list_items_images"),
       write("sql", "face_list_items_images"),
       write("maps", "face_list_items_images") >>

\* face_list_items_assets.py
assets_main_steps ==
    << parse_pipe_table("face_list_items"),
       parse_pipe_table("face_list_items_images"),
       load_map("face_lists"),
       write("docs", "face_list_items_images") >>

main_steps(script) ==
    CASE script = "stream_groups" -> stream_groups_main_steps
      [] script = "streams" -> streams_main_steps
      [] script = "analytics" -> analytics_main_steps
      [] script = "event_manager" -> event_manager_main_steps
      [] script = "alpr" -> alpr_main_steps
      [] script = "face" -> face_main_steps
      [] script = "assets" -> assets_main_steps

FilesRead(script) ==
    {main_steps(script)[i].file :
        i \in {j \in DOMAIN main_steps(script) : main_steps(script)[j].op # "write"}}

FilesWritten(script) ==
    {main_steps(script)[i].file :
        i \in {j \in DOMAIN main_steps(script) : main_steps(script)[j].op = "write"}}

\* What can be wrong with a file: a mapping artifact can be missing, a table
\* can be missing or have fewer than two lines.
Faults(file) == IF file[1] = "maps" THEN {"missing"} ELSE {"missing", "short"}

\* At most MaxFaults of the files a script reads are not as they should be;
\* a file the script only writes is not there yet.
InitMain ==
    /\ focus \in Scripts
    /\ \E faulty \in SUBSET FilesRead(focus) :
          /\ Cardinality(faulty) <= MaxFaults
          /\ \E fault \in [faulty -> {"missing", "short"}] :
                /\ \A f \in faulty : fault[f] \in Faults(f)
                /\ disk = [f \in FilesRead(focus) \cup FilesWritten(focus) |->
                              IF f \in faulty THEN fault[f]
                              ELSE IF f \in FilesRead(focus) THEN "ok" ELSE "missing"]
    /\ NoCall
    /\ pc = 0
    /\ loaded = {}
    /\ written = {}
    /\ exit = "none"
    /\ old_dataset = EmptyTables
    /\ new_dataset = EmptyTables
    /\ sql = [t \in Tables |-> NoStatement]
    /\ maps = [m \in MapNames |-> NoArtifact]
    /\ part_files = {}
    /\ runs = 0

Running == exit = "none" /\ pc < Len(main_steps(focus))

Step == main_steps(focus)[pc + 1]

\* An exception leaves main.
Raise ==
    /\ exit' = "failed"
    /\ UNCHANGED <<calls, focus, content, progress>>

Read ==
    /\ loaded' = loaded \cup {Step.file}
    /\ pc' = pc + 1
    /\ UNCHANGED <<calls, focus, content, exit, disk, written>>

\* read_text raises on a missing file.
LoadMap ==
    /\ Running
    /\ Step.op = "load_map"
    /\ IF disk[Step.file] = "missing" THEN Raise ELSE Read

\* read_text raises on a missing file; a file of fewer than two lines has
\* no rows.
ParsePipeTable ==
    /\ Running
    /\ Step.op = "parse_pipe_table"
    /\ IF disk[Step.file] = "missing" THEN Raise ELSE Read

\* read_text raises on a missing file, and ValueError is raised for a file of
\* fewer than two lines.
ParseExistingDataset ==
    /\ Running
    /\ Step.op = "parse_existing_dataset"
    /\ IF disk[Step.file] \in {"missing", "short"} THEN Raise ELSE Read

WriteText ==
    /\ Running
    /\ Step.op = "write"
    /\ written' = written \cup {Step.file}
    /\ disk' = [disk EXCEPT ![Step.file] = "ok"]
    /\ pc' = pc + 1
    /\ UNCHANGED <<calls, focus, content, exit, loaded>>

Return ==
    /\ exit = "none"
    /\ pc = Len(main_steps(focus))
    /\ exit' = "ok"
    /\ UNCHANGED <<calls, focus, content, progress>>

NextMain ==
    \/ LoadMap
    \/ ParsePipeTable
    \/ ParseExistingDataset
    \/ WriteText
    \/ Return

SpecMain == InitMain /\ [][NextMain]_vars

----------------------------------------------------------------------------
(* One call of a function of the scripts on an argument.                   *)

MaxStreams == 3
MaxEntries == 3
MaxLen == 3

\* Entries of mapped in maps/analytics.json: the analytics 7 and 8 of the
\* streams 1 and 2 for a plugin, and an analytics of another plugin.
AnalyticsEntries(plugin) ==
    { [old_stream_id |-> s, new_id |-> n, plugin_name |-> plugin] : s \in 1..2, n \in 7..8 }
    \cup { [old_stream_id |-> 1, new_id |-> 9, plugin_name |-> <<"x">>] }

\* The streams of a list row and the analytics artifact: the argument of
\* the fan-out of a list.
FanOutCalls ==
    { [fn |-> f, arg |-> [streams |-> st, entries |-> en]] :
        f \in {"alpr_analytics_ids"}, st \in SeqUpTo(1..2, MaxStreams),
        en \in SeqUpTo(AnalyticsEntries(TAlpr), MaxEntries) }
    \cup
    { [fn |-> f, arg |-> [streams |-> st, entries |-> en]] :
        f \in {"face_analytics_ids"}, st \in SeqUpTo(1..2, MaxStreams),
        en \in SeqUpTo(AnalyticsEntries(TFace), MaxEntries) }

\* A cell of a table: absent, a null placeholder, or a text of digits,
\* commas, blanks, signs and letters.
NumberCells ==
    {NoText} \cup {SomeText(t) : t \in NULL_VALUES}
    \cup {SomeText(t) : t \in SeqUpTo({"1", ",", " ", "-", "x"}, MaxLen)}

IntCalls ==
    { [fn |-> f, arg |-> cell] :
        f \in {"to_int", "parse_int", "streams_to_int"}, cell \in NumberCells }

\* A cell that holds a payload: absent, a null placeholder, a text of
\* brackets, quotes, digits and letters, or an array in one and in two
\* layers of quotes.
JsonCells ==
    {NoText} \cup {SomeText(t) : t \in NULL_VALUES}
    \cup {SomeText(t) : t \in SeqUpTo({"[", "]", "1", "\"", "x"}, MaxLen)}
    \cup {SomeText(<<"{", "}">>), SomeText(<<"\"", "[", "1", "]", "\"">>),
          SomeText(<<"\"", "\"", "[", "1", "]", "\"", "\"">>)}

JsonCalls ==
    { [fn |-> f, arg |-> cell] :
        f \in {"analytics_parse_json_field", "alpr_parse_json_field",
               "streams_parse_json_field"},
        cell \in JsonCells }

\* A text to normalize: absent, or blanks, letters, accented letters,
\* combining accents and dashes.
NameCells ==
    {NoText} \cup {SomeText(t) : t \in SeqUpTo({" ", "a", "-", "U+00E9", "U+0301"}, MaxLen)}

NormalizeCalls == { [fn |-> "normalize_text", arg |-> cell] : cell \in NameCells }

\* An entry of mapped in maps/stream_groups.json, as stream_groups_migration
\* writes it: the group keeps its id and its parent.
StreamGroupEntry(id, parent) ==
    [old_id |-> id, new_id |-> id,
     old_parent_id |-> IF parent = 0 THEN None ELSE Some(parent), new_parent_id |-> parent,
     old_client_id |-> 1, new_client_id |-> 11]

\* The stream group 5, its child 6 and the child 7 of 6.
StreamGroupEntries ==
    {StreamGroupEntry(5, 0), StreamGroupEntry(6, 5), StreamGroupEntry(7, 6)}

\* The plugin names and the stream groups, each once and in any order in
\* the file: the arguments of build_analytics_groups.
GroupCalls ==
    { [fn |-> "build_analytics_groups", arg |-> [plugin_names |-> ps, entries |-> en]] :
        ps \in SUBSET {TA, TB},
        en \in {s \in SeqUpTo(StreamGroupEntries, MaxEntries) :
                  \A i, j \in DOMAIN s : i # j => s[i] # s[j]} }

MaxUsers == 2

\* The value of creator_id in a decoded list_permissions payload: the key
\* is absent, or the value is null, a number or a text.
CreatorValues ==
    {[k |-> "absent"], [k |-> "null"]}
    \cup {[k |-> "num", v |-> n] : n \in 1..(MaxUsers + 1)}
    \cup {[k |-> "str", t |-> t] : t \in {T2, TX}}

\* The user maps: some of the legacy users 1..MaxUsers, user u mapped to 20 + u.
UserMaps == { [u \in S |-> 20 + u] : S \in SUBSET (1..MaxUsers) }

CreatorCalls ==
    { [fn |-> f, arg |-> [creator_id |-> c, user_map |-> m]] :
        f \in {"alpr_creator_id", "face_creator_id"}, c \in CreatorValues, m \in UserMaps }

InitCalls ==
    /\ focus = "none"
    /\ old_dataset = EmptyTables
    /\ new_dataset = EmptyTables
    /\ sql = [t \in Tables |-> NoStatement]
    /\ maps = [m \in MapNames |-> NoArtifact]
    /\ part_files = {}
    /\ exit = "none"
    /\ runs = 0
    /\ pc = 0
    /\ disk = <<>>
    /\ loaded = {}
    /\ written = {}
    /\ result = [k |-> "pending"]
    /\ \/ call \in FanOutCalls
       \/ call \in IntCalls
       \/ call \in JsonCalls
       \/ call \in NormalizeCalls
       \/ call \in GroupCalls
       \/ call \in CreatorCalls

Returns(value) ==
    /\ result.k = "pending"
    /\ result' = value
    /\ UNCHANGED <<call, focus, content, exit, progress>>

\* The analytics_ids of a list of alpr_lists_migration: build_alpr_analytics_map,
\* then the loop over the streams of the row in build_list_records.
AlprAnalyticsIds ==
    /\ call.fn = "alpr_analytics_ids"
    /\ Returns([k |-> "ids",
                ids |-> sorted_set(extend_all(
                            call.arg.streams,
                            build_alpr_analytics_map(Artifact(call.arg.entries, <<>>, <<>>))))])

\* The analytics_ids of a list of face_lists_migration:
\* load_face_analytics_by_stream, then the loop over the streams of the row
\* in build_face_lists.
FaceAnalyticsIds ==
    /\ call.fn = "face_analytics_ids"
    /\ Returns([k |-> "ids",
                ids |-> sorted_set(extend_all(
                            call.arg.streams,
                            load_face_analytics_by_stream(
                                Artifact(call.arg.entries, <<>>, <<>>))))])

\* to_int of analytics_migration and face_lists_migration, parse_int of
\* alpr_lists_migration, to_int of streams_migration and
\* event_manager_migration: clean_value gives None for an absent cell.
ToInt ==
    /\ call.fn \in {"to_int", "parse_int", "streams_to_int"}
    /\ Returns(IF call.arg.k = "none" THEN None
               ELSE CASE call.fn = "to_int" -> to_int(call.arg.t)
                      [] call.fn = "parse_int" -> parse_int(call.arg.t)
                      [] call.fn = "streams_to_int" -> streams_to_int(call.arg.t))

\* A JSONDecodeError that leaves the function.
Raises(j) == IF j.k = "fail" THEN [k |-> "raise", items |-> <<>>] ELSE j

\* parse_json_field of analytics_migration and face_lists_migration, of
\* alpr_lists_migration and of streams_migration: None for an absent cell.
ParseJsonField ==
    /\ call.fn \in {"analytics_parse_json_field", "alpr_parse_json_field",
                    "streams_parse_json_field"}
    /\ Returns(IF call.arg.k = "none" THEN JNone
               ELSE CASE call.fn = "analytics_parse_json_field" ->
                            analytics_parse_json_field(call.arg.t)
                      [] call.fn = "alpr_parse_json_field" ->
                            alpr_parse_json_field(call.arg.t)
                      [] call.fn = "streams_parse_json_field" ->
                            Raises(streams_parse_json_field(call.arg.t)))

\* normalize_text(value), None for None
Normalized(value) == IF value.k = "none" THEN NoText ELSE normalize_text(value.t)

\* normalize_text of every script and ensure_ascii of
\* face_list_items_assets, applied to a text and then to what it returned.
NormalizeText ==
    /\ call.fn = "normalize_text"
    /\ Returns([k |-> "normalized",
                once |-> Normalized(call.arg),
                twice |-> Normalized(Normalized(call.arg))])

\* build_analytics_groups on the plugin names and on what
\* load_stream_group_entries reads from maps/stream_groups.json.
BuildAnalyticsGroups ==
    /\ call.fn = "build_analytics_groups"
    /\ Returns([k |-> "groups",
                groups |-> build_analytics_groups(
                               call.arg.plugin_names,
                               load_stream_group_entries(
                                   Artifact(call.arg.entries, <<>>, <<>>))).groups])

\* int(creator_id) of build_list_records, and to_int(str(creator_id)) of
\* build_face_lists: str(None) is the text None.
CreatorInt(creator_id) ==
    CASE creator_id.k = "num" -> Some(creator_id.v)
      [] creator_id.k = "str" -> py_int(creator_id.t)
      [] OTHER -> Raised

CreatorToInt(creator_id) ==
    CASE creator_id.k = "num" -> Some(creator_id.v)
      [] creator_id.k = "str" -> to_int(creator_id.t)
      [] OTHER -> to_int(<<"N", "o", "n", "e">>)

\* build_list_records of alpr_lists_migration: creator_id of
\* list_permissions after the remapping; it is set only when the user map
\* has the creator, and int() raises on a text that is no number.
alpr_creator_id(creator_id, user_map) ==
    IF creator_id.k \in {"absent", "null"} THEN creator_id
    ELSE IF CreatorInt(creator_id).k # "int" THEN [k |-> "raise"]
    ELSE IF CreatorInt(creator_id).v \in DOMAIN user_map
    THEN [k |-> "num", v |-> user_map[CreatorInt(creator_id).v]]
    ELSE creator_id

\* build_face_lists of face_lists_migration: creator_id of list_permissions
\* after the remapping; 1 when the user map lacks the creator.
face_creator_id(creator_id, user_map) ==
    IF creator_id.k = "absent" THEN creator_id
    ELSE IF CreatorToInt(creator_id).k = "int"
            /\ CreatorToInt(creator_id).v \in DOMAIN user_map
    THEN [k |-> "num", v |-> user_map[CreatorToInt(creator_id).v]]
    ELSE IF CreatorToInt(creator_id).k = "int" THEN [k |-> "num", v |-> 1]
    ELSE creator_id

\* The creator_id that a list record carries in its list_permissions.
RemapCreator ==
    /\ call.fn \in {"alpr_creator_id", "face_creator_id"}
    /\ Returns([k |-> "creator_id",
                value |-> IF call.fn = "alpr_creator_id"
                          THEN alpr_creator_id(call.arg.creator_id, call.arg.user_map)
                          ELSE face_creator_id(call.arg.creator_id, call.arg.user_map)])

NextCalls ==
    \/ BuildAnalyticsGroups
    \/ RemapCreator
    \/ AlprAnalyticsIds
    \/ FaceAnalyticsIds
    \/ ToInt
    \/ ParseJsonField
    \/ NormalizeText

SpecCalls == InitCalls /\ [][NextCalls]_vars

----------------------------------------------------------------------------
(* What the properties speak of.                                           *)

\* The tables whose dataset, SQL statement and mapping artifact a script
\* writes.
Outputs(script) ==
    CASE script = "analytics" -> {"analytics_groups", "analytics"}
      [] script = "alpr" -> {"alpr_lists", "alpr_list_items"}
      [] script = "face" -> {"face_lists", "face_list_items", "face_list_items_images"}
      [] OTHER -> {script}

\* The tables of the script of this directory that are migrated from a
\* legacy table.
Migrated == Outputs(focus) \ {"analytics_groups"}

\* Those for which a run allocates new identifiers: stream_groups and
\* streams keep the legacy identifier.
AllocatingTables == Migrated \ {"stream_groups", "streams"}

\* The new_id values of the mapped entries of an artifact.
NewIds(artifact) == {artifact.mapped[i].new_id : i \in DOMAIN artifact.mapped}

\* The ids of the lines of a dataset whose id cell is a number.
LineIds(lines) ==
    {to_int(lines[i].id).v : i \in {j \in DOMAIN lines : to_int(lines[j].id).k = "int"}}

\* C1: a second run over the same legacy input and the same dependency
\* maps, on the dataset the first run wrote, allocates no identifier: it
\* appends no row to any dataset and maps no legacy row to a new_id that
\* was not in the dataset before it.
C1_RerunAllocatesNothing ==
    [][(exit = "ok" /\ exit' = "ok") =>
          \A t \in AllocatingTables :
             /\ new_dataset'[t] = new_dataset[t]
             /\ NewIds(maps'[t]) \subseteq LineIds(new_dataset[t])]_vars

\* The rows of a target dataset that a run carries over: those whose id is
\* in the retention set of the script, every row where there is no such set.
Retained(t, lines) ==
    CASE t = "alpr_lists" ->
            SelectSeq(lines, LAMBDA l : to_int(l.id).k = "int" /\ to_int(l.id).v \in PRESERVE_LIST_IDS)
      [] t = "alpr_list_items" ->
            SelectSeq(lines, LAMBDA l : to_int(l.id).k = "int" /\ to_int(l.id).v \in PRESERVE_ITEM_IDS)
      [] OTHER -> lines

\* mapped holds the identifiers start, start+1, ... in this order.
DenseFrom(start, artifact) ==
    \A i \in DOMAIN artifact.mapped : artifact.mapped[i].new_id = start + i - 1

OldIdLeq(t, a, b) == IF t = "event_manager" THEN a = b \/ TextLess(a, b) ELSE a <= b

AscendingOldIds(t, entries) ==
    \A i, j \in DOMAIN entries : i < j => OldIdLeq(t, entries[i].old_id, entries[j].old_id)

\* C3: new identifiers are allocated in ascending legacy-identifier order
\* whatever the order of the rows in the legacy file, and mapped and
\* unmapped_old are written in ascending old_id order.
C3_AscendingAllocation ==
    exit = "ok" =>
       \A t \in AllocatingTables :
          /\ \A i, j \in DOMAIN maps[t].mapped :
                (maps[t].mapped[i].old_id # maps[t].mapped[j].old_id
                 /\ OldIdLeq(t, maps[t].mapped[i].old_id, maps[t].mapped[j].old_id))
                => maps[t].mapped[i].new_id < maps[t].mapped[j].new_id
          /\ AscendingOldIds(t, maps[t].mapped)
          /\ AscendingOldIds(t, maps[t].unmapped_old)

\* The tables whose legacy rows have a status column.
\* The artifact maps the legacy id old to the new id new.
Resolves(artifact, old, new) ==
    \E i \in DOMAIN artifact.mapped :
        artifact.mapped[i].old_id = old /\ artifact.mapped[i].new_id = new

\* The analytics_groups artifact gives the group of a stream group and plugin.
ResolvesGroup(artifact, e) ==
    \E i \in DOMAIN artifact.mapped :
        /\ artifact.mapped[i].old_stream_group_id = e.old_stream_group_id
        /\ artifact.mapped[i].plugin_name = e.plugin_name
        /\ artifact.mapped[i].new_id = e.new_group_id

\* The new client of a mapped entry is what the clients artifact gives for
\* the legacy client; old_client_id is an optional integer for an ALPR
\* list, whose client is looked up as 0 when it is absent.
ClientResolved(t, e) ==
    IF t = "alpr_lists"
    THEN Resolves(maps.clients, OrZero(e.old_client_id), e.new_client_id)
    ELSE Resolves(maps.clients, e.old_client_id, e.new_client_id)

\* The client, list, stream and list item of a mapped entry come from the
\* clients, lists, streams and list items artifacts.
ReferencesResolved(t, e) ==
    /\ t # "face_list_items_images" => ClientResolved(t, e)
    /\ t = "alpr_list_items" =>
           e.old_list_id.k = "int" /\ Resolves(maps.alpr_lists, e.old_list_id.v, e.new_list_id)
    /\ t = "face_list_items" => Resolves(maps.face_lists, e.old_list_id, e.new_list_id)
    /\ t = "face_list_items_images" =>
           Resolves(maps.face_list_items, e.old_list_item_id, e.new_list_item_id)
    /\ t = "analytics" => Resolves(maps.streams, e.old_stream_id, e.new_stream_id)

ReasonsGiven(t) ==
    \A j \in DOMAIN maps[t].unmapped_old : maps[t].unmapped_old[j].reason # ""

StatusTables == Migrated \ {"stream_groups", "event_manager", "face_list_items_images"}

ExclusionReasons == {"status = -1 (excluded)", "status -1", "status = -1"}

Excluded(row) == to_int(strip_outer_quotes(row.status)) = Some(0 - 1)

CountOf(s, P(_)) == Cardinality({i \in DOMAIN s : P(s[i])})

\* C5: a legacy row whose status is -1 produces no record: no line of the
\* dataset, no tuple of the SQL statement and no mapped entry comes from
\* it, and it is recorded in unmapped_old.
C5_ExcludedRowsRecorded ==
    exit = "ok" =>
       \A t \in StatusTables :
          /\ CountOf(maps[t].unmapped_old, LAMBDA e : e.reason \in ExclusionReasons)
                = CountOf(old_dataset[t], Excluded)
          /\ Len(maps[t].mapped)
                <= CountOf(old_dataset[t], LAMBDA row : ~Excluded(row))
          /\ Len(sql[t].rows) = Len(maps[t].mapped)

\* The old_id of an entry as a comparable value: streams writes the old_id
\* of a mapped entry as a number and that of an unmapped one as an optional.
MappedOldId(t, e) == IF t = "streams" THEN Some(e.old_id) ELSE e.old_id

\* C6: in a mapping artifact the old_id values of mapped are pairwise
\* distinct and none of them is an old_id of unmapped_old.
C6_MapWellFormed ==
    exit = "ok" =>
       \A t \in Migrated :
          /\ \A i, j \in DOMAIN maps[t].mapped :
                i # j => maps[t].mapped[i].old_id # maps[t].mapped[j].old_id
          /\ \A i \in DOMAIN maps[t].mapped : \A j \in DOMAIN maps[t].unmapped_old :
                MappedOldId(t, maps[t].mapped[i]) # maps[t].unmapped_old[j].old_id

\* C7: every legacy row ends in mapped or in unmapped_old:
\* |mapped| + |unmapped_old| is the number of legacy rows.
C7_RowConservation ==
    exit = "ok" =>
       \A t \in Migrated :
          Len(maps[t].mapped) + Len(maps[t].unmapped_old) = Len(old_dataset[t])

\* C8: every input file being present with its header, a run does not
\* fail, whatever the content of the legacy rows.
C8_RowFailureNeverAborts == exit # "failed"

----------------------------------------------------------------------------
(* Properties of a run taken read by read and write by write (SpecMain).   *)

\* C9: a run that has failed has written no file, and a run that has
\* returned has written every file it writes.
C9_AllOutputsOrNone ==
    /\ exit = "failed" => written = {}
    /\ exit = "ok" => written = FilesWritten(focus)

\* The mapping artifacts of the entities a script depends on.
UpstreamMaps(script) ==
    LET names ==
          CASE script = "stream_groups" -> {"clients"}
            [] script = "streams" -> {"clients", "stream_groups", "users"}
            [] script = "analytics" -> {"clients", "stream_groups", "streams", "users"}
            [] script = "event_manager" -> {"clients"}
            [] script = "alpr" -> {"clients", "users", "analytics"}
            [] script = "face" -> {"clients", "users", "analytics"}
            [] script = "assets" -> {"face_lists"}
    IN  {<<"maps", n>> : n \in names}

\* C10: a script that has written a file has loaded the mapping artifact of
\* every entity it depends on, and when one of them is missing the script
\* writes nothing and does not return normally.
C10_DependencyOrdering ==
    /\ written # {} => UpstreamMaps(focus) \subseteq loaded
    /\ (\E m \in UpstreamMaps(focus) : disk[m] = "missing") =>
          written = {} /\ exit # "ok"

\* The ALPR script has read its tables and the clients map, has found the
\* users map missing and has failed without a write.
C10_Witness ==
    /\ focus = "alpr"
    /\ exit = "failed"
    /\ disk[<<"maps", "users">>] = "missing"
    /\ <<"maps", "clients">> \in loaded
    /\ written = {}

----------------------------------------------------------------------------
(* Preserved rows, fan-out, assets.                                        *)

\* The lines of a target dataset that qualify as preserved rows: those of
\* the retention set for the ALPR tables, those whose id is a number for
\* event_manager, every line for the other tables.
Preserved(t, lines) ==
    IF t = "event_manager"
    THEN SelectSeq(lines, LAMBDA l : py_int(remove_commas(l.id)).k = "int")
    ELSE Retained(t, lines)

\* C11: a run that ends normally writes every preserved row of the target
\* dataset as it was, in the order the rows had, before all the rows it
\* produces: none is dropped, reordered or rewritten.
C11_PreservedRowsUntouched ==
    [][exit' = "ok" =>
          \A t \in AllocatingTables :
             LET kept == Preserved(t, new_dataset[t])
             IN  /\ Len(new_dataset'[t]) = Len(kept) + Len(maps'[t].mapped)
                 /\ SubSeq(new_dataset'[t], 1, Len(kept)) = kept]_vars

\* The tables of lists whose rows name streams, and the plugin whose
\* analytics a stream of such a list fans out to.
FanOutTables == Outputs(focus) \cap {"alpr_lists", "face_lists"}

FanOutPlugin(t) == IF t = "alpr_lists" THEN <<"a", "l", "p", "r">> ELSE <<"f", "a", "c", "e">>

\* The new ids of the analytics of a legacy stream in maps/analytics.json.
FanOutIds(t, stream_id) ==
    {maps.analytics.mapped[i].new_id :
        i \in {j \in DOMAIN maps.analytics.mapped :
                  /\ maps.analytics.mapped[j].plugin_name = FanOutPlugin(t)
                  /\ maps.analytics.mapped[j].old_stream_id = stream_id}}

\* The elements of the streams field of a legacy list row.
StreamElements(row) ==
    IF json_loads(strip(row.streams)).k = "list"
    THEN Range(json_loads(strip(row.streams)).items)
    ELSE {}

\* The row has an id, is not excluded and its client is mapped.
PassesMandatoryChecks(row) ==
    /\ to_int(row.id).k = "int"
    /\ ~Excluded(row)
    /\ to_int(row.client_id).k = "int"
    /\ \E i \in DOMAIN maps.clients.mapped :
          maps.clients.mapped[i].old_id = to_int(row.client_id).v

\* C12: a list row that passes its mandatory checks has a mapped entry, and
\* every element of its streams field has all its analytics ids in the
\* analytics_ids of that entry or, having none, is in its
\* unmapped_stream_ids.
C12_PartialFanOut ==
    exit = "ok" =>
       \A t \in FanOutTables : \A r \in DOMAIN old_dataset[t] :
          PassesMandatoryChecks(old_dataset[t][r]) =>
             \E n \in DOMAIN maps[t].mapped :
                /\ maps[t].mapped[n].old_id = to_int(old_dataset[t][r].id).v
                /\ \A s \in StreamElements(old_dataset[t][r]) :
                      IF FanOutIds(t, s) # {}
                      THEN FanOutIds(t, s) \subseteq Range(maps[t].mapped[n].analytics_ids)
                      ELSE /\ "unmapped_stream_ids" \in DOMAIN maps[t].mapped[n]
                           /\ s \in Range(maps[t].mapped[n].unmapped_stream_ids)

----------------------------------------------------------------------------
(* Properties of one call of a function (SpecCalls).                       *)

\* The new ids that the entries of the artifact give to a stream for the
\* plugin of the script.
EntryIds(stream_id) ==
    {call.arg.entries[i].new_id :
        i \in {j \in DOMAIN call.arg.entries :
                  /\ call.arg.entries[j].old_stream_id = stream_id
                  /\ call.arg.entries[j].plugin_name =
                        (IF call.fn = "alpr_analytics_ids" THEN TAlpr ELSE TFace)}}

\* C13: the analytics_ids of a list are the new ids that the artifact gives
\* to the set of the streams of the list, in strictly ascending order: the
\* order and the repetitions of the streams and of the entries do not count.
C13_FanOutDeterminism ==
    result.k = "ids" =>
       /\ Range(result.ids) = UNION {EntryIds(s) : s \in Range(call.arg.streams)}
       /\ \A i, j \in DOMAIN result.ids : i < j => result.ids[i] < result.ids[j]

\* A list that names stream 2 twice, around stream 1, over an artifact that
\* lists the analytics 8 of a stream before its analytics 7.
C13_Witness ==
    /\ result.k = "ids"
    /\ call.arg.streams = <<2, 1, 2>>
    /\ \E i, j \in DOMAIN call.arg.entries :
          /\ i < j
          /\ call.arg.entries[i].old_stream_id = call.arg.entries[j].old_stream_id
          /\ call.arg.entries[i].new_id = 8
          /\ call.arg.entries[j].new_id = 7
    /\ result.ids = <<7, 8>>

\* C16: the integer coercion of every script returns an integer or None
\* for every cell, and does not raise.
C16_IntegerCoercionTotal ==
    (call.fn \in {"to_int", "parse_int", "streams_to_int"} /\ result.k # "pending")
    => result.k \in {"none", "int"}

\* C17: the decoder of payloads returns an object, an array or None for
\* every cell: it returns no number and no string, and does not raise.
C17_DecodingTwoOutcomes ==
    (/\ call.fn \in {"analytics_parse_json_field", "alpr_parse_json_field",
                     "streams_parse_json_field"}
     /\ result.k # "pending")
    => result.k \in {"dict", "list", "none"}

\* C18: the normalizer applied to its own result returns that result:
\* normalize(normalize(s)) = normalize(s) for every text s.
C18_NormalizerIdempotent == result.k = "normalized" => result.twice = result.once

----------------------------------------------------------------------------
(* Properties of a run taken as one step (Spec), continued.                *)

\* The legacy image row names a list item that this run has mapped.
ItemMapped(row, artifact) ==
    /\ to_int(row.id).k = "int"
    /\ \E n \in DOMAIN artifact.mapped : Some(artifact.mapped[n].old_id) = to_int(row.list_item_id)

\* C14: a run of the face migration does not fail on an image row whose
\* file is not in the part directories when the row is processed: the run
\* ends normally, and a row whose file was not there when the run began is
\* in unmapped_old with the reason "source image not found".
C14_MissingAssetIsRejection ==
    [][(focus = "face" /\ runs' = runs + 1) =>
          /\ exit' = "ok"
          /\ \A i \in DOMAIN old_dataset.face_list_items_images :
                (/\ ItemMapped(old_dataset.face_list_items_images[i], maps'.face_list_items)
                 /\ strip_outer_quotes(old_dataset.face_list_items_images[i].path)
                       \notin part_files)
                => \E n \in DOMAIN maps'.face_list_items_images.unmapped_old :
                      /\ Some(maps'.face_list_items_images.unmapped_old[n].old_id)
                            = to_int(old_dataset.face_list_items_images[i].id)
                      /\ maps'.face_list_items_images.unmapped_old[n].reason
                            = "source image not found"]_vars

----------------------------------------------------------------------------
(* Properties of a run taken read by read and write by write (SpecMain),   *)
(* continued.                                                              *)

\* C15: a run over a legacy table of fewer than two lines writes no file
\* and does not end normally.
C15_MalformedTableIsFatal ==
    \A f \in DOMAIN disk :
        (f[1] = "old_dataset" /\ disk[f] = "short") => (written = {} /\ exit # "ok")

----------------------------------------------------------------------------
(* Properties of the mapping artifacts of a run (Spec).                    *)

\* The entry of unmapped_new is tagged as a pre-existing row.
TaggedPreExisting(entry) ==
    /\ "reason" \in DOMAIN entry
    /\ entry.reason = "pre-existing new_dataset row"

\* The number of lines of the merged dataset that the run did not build:
\* the lines carried over from the existing target dataset.
CarriedOver(t, merged, artifact) == Len(merged[t]) - Len(artifact[t].mapped)

\* C19: after a run that ends normally, unmapped_new of the artifact of a
\* table has one entry per line carried over from the existing target
\* dataset, no other entry, and every entry is tagged as a pre-existing row.
C19_UnmappedNewIsPreserved ==
    [][exit' = "ok" =>
          \A t \in AllocatingTables :
             /\ Len(maps'[t].unmapped_new) = CarriedOver(t, new_dataset', maps')
             /\ \A i \in DOMAIN maps'[t].unmapped_new :
                   TaggedPreExisting(maps'[t].unmapped_new[i])]_vars

\* C20: every entry of mapped of every mapping artifact that the migration
\* of this directory writes has an old_id key and a new_id key.
C20_MappedCarryOldAndNewId ==
    \A t \in Outputs(focus) :
        \A i \in DOMAIN maps[t].mapped :
            {"old_id", "new_id"} \subseteq DOMAIN maps[t].mapped[i]

----------------------------------------------------------------------------
(* Properties of the SQL artifacts of a run (Spec).                        *)

\* An identifier of a record as an Optional[int]: the id of a stream group
\* is one already.
IdOf(t, id) == IF t = "stream_groups" THEN id ELSE Some(id)

\* The ids of the tuples of a statement, of the entries of mapped, and of
\* the last n lines of a dataset, in their order.
SqlIds(t, statement) == [i \in DOMAIN statement.rows |-> IdOf(t, statement.rows[i].id)]

MappedNewIds(t, artifact) == [i \in DOMAIN artifact.mapped |-> IdOf(t, artifact.mapped[i].new_id)]

AppendedIds(lines, n) == [i \in 1..n |-> to_int(lines[Len(lines) - n + i].id)]

\* C21: after a run that ends normally the ids of the tuples of the SQL
\* statement of a table are, in the same order, the new_id values of mapped
\* and the ids of the lines the run appended to the dataset, and the id of
\* no line carried over is among them.
C21_SqlCoversNewRecords ==
    [][exit' = "ok" =>
          \A t \in Outputs(focus) :
             /\ SqlIds(t, sql'[t]) = MappedNewIds(t, maps'[t])
             /\ Len(new_dataset'[t]) >= Len(maps'[t].mapped)
             /\ AppendedIds(new_dataset'[t], Len(maps'[t].mapped)) = MappedNewIds(t, maps'[t])
             /\ \A i \in 1..(Len(new_dataset'[t]) - Len(maps'[t].mapped)) :
                   \A n \in DOMAIN sql'[t].rows :
                      to_int(new_dataset'[t][i].id) # IdOf(t, sql'[t].rows[n].id)]_vars

\* A run has ended normally over a dataset that held a line: it carried the
\* line over, appended two lines and wrote a statement of two tuples.
C21_Witness ==
    /\ exit = "ok"
    /\ \E t \in Outputs(focus) :
         /\ Len(maps[t].mapped) = 2
         /\ Len(sql[t].rows) = 2
         /\ Len(new_dataset[t]) > 2
         /\ to_int(new_dataset[t][1].id).k = "int"

----------------------------------------------------------------------------
(* Properties of the records and of the entries of a run (Spec).           *)

\* old_id is the legacy id of the row: the Optional[int] itself in streams,
\* which keeps it, and 0 for an absent id in the scripts that write an int.
CarriesId(t, old_id, id) == IF t = "streams" THEN old_id = id ELSE old_id = OrZero(id)

\* C22: after a run that ends normally, every legacy row with status -1
\* has an entry of unmapped_old with its legacy id as old_id and the reason
\* "status -1", and there are as many entries with that reason as rows with
\* status -1.
C22_ExcludedRowRecord ==
    exit = "ok" =>
       \A t \in StatusTables :
          /\ \A i \in DOMAIN old_dataset[t] :
                Excluded(old_dataset[t][i]) =>
                   \E n \in DOMAIN maps[t].unmapped_old :
                      /\ CarriesId(t, maps[t].unmapped_old[n].old_id, to_int(old_dataset[t][i].id))
                      /\ maps[t].unmapped_old[n].reason = "status -1"
          /\ CountOf(maps[t].unmapped_old, LAMBDA e : e.reason = "status -1")
                = CountOf(old_dataset[t], Excluded)

\* The tables whose records have a client.
ClientTables == Migrated \ {"face_list_items_images"}

\* old_client_id of a mapped entry as an Optional[int]: alpr_lists writes
\* the Optional[int] itself.
OldClient(t, entry) == IF t = "alpr_lists" THEN entry.old_client_id ELSE Some(entry.old_client_id)

\* new_client_id of the entry, and client_id of the tuple of the record in
\* the statement, is what the client map gives for old_client_id.
ClientRemapped(t, entry, tuple, client_map) ==
    /\ {"old_id", "new_id", "old_client_id", "new_client_id"} \subseteq DOMAIN entry
    /\ OldClient(t, entry).k = "int"
    /\ OldClient(t, entry).v \in DOMAIN client_map
    /\ entry.new_client_id = client_map[OldClient(t, entry).v]
    /\ "client_id" \in DOMAIN tuple => tuple.client_id = entry.new_client_id

\* C23: after a run that ends normally every mapped entry has old_id,
\* new_id, old_client_id and new_client_id with new_client_id the value of
\* the client map for old_client_id, which is the client_id of the record,
\* and the first accepted row has the id m + 1, m the greatest id of the
\* existing target dataset (0 when it has none).
C23_DirectRemapping ==
    [][exit' = "ok" =>
          /\ \A t \in ClientTables :
                \A i \in DOMAIN maps'[t].mapped :
                   ClientRemapped(t, maps'[t].mapped[i], sql'[t].rows[i],
                                  load_id_map(maps.clients))
          /\ \A t \in AllocatingTables :
                maps'[t].mapped # <<>> =>
                   maps'[t].mapped[1].new_id = Max({0} \cup LineIds(new_dataset[t])) + 1]_vars

\* The client_id cell (for an item, also the list_id cell) of the legacy
\* row is absent or is no number.
LacksReference(t, row) ==
    \/ parse_int(row.client_id).k # "int"
    \/ t = "alpr_list_items" /\ parse_int(row.list_id).k # "int"

\* C28: after a run of the ALPR migration that ends normally, mapped has
\* as many entries as there are legacy rows that do not lack a reference
\* at most: no row with an absent or unparsable client_id or list_id cell
\* is mapped, whatever the identifier maps hold.
C28_AbsentReferenceNeverResolved ==
    (focus = "alpr" /\ exit = "ok") =>
       \A t \in {"alpr_lists", "alpr_list_items"} :
          Len(maps[t].mapped)
             <= CountOf(old_dataset[t], LAMBDA row : ~LacksReference(t, row))

----------------------------------------------------------------------------
(* Stream groups and streams (Spec).                                       *)

\* The tables whose records keep the legacy identifier.
KeepingTables == Migrated \cap {"stream_groups", "streams"}

\* C24: after a run of the stream_groups or of the streams migration that
\* ends normally, new_id of every mapped entry is its old_id, mapped is in
\* ascending id order, and the dataset holds the lines of the mapped
\* records in that order and no other line, whatever it held before the
\* run.
C24_IdentifierKept ==
    [][exit' = "ok" =>
          \A t \in KeepingTables :
             /\ \A i \in DOMAIN maps'[t].mapped :
                   maps'[t].mapped[i].new_id = maps'[t].mapped[i].old_id
             /\ \A i, j \in DOMAIN maps'[t].mapped :
                   i < j => OrZero(MappedNewIds(t, maps'[t])[i])
                               <= OrZero(MappedNewIds(t, maps'[t])[j])
             /\ Len(new_dataset'[t]) = Len(maps'[t].mapped)
             /\ AppendedIds(new_dataset'[t], Len(maps'[t].mapped)) = MappedNewIds(t, maps'[t])]_vars

\* The second run of one of the two migrations has ended normally over a
\* legacy table that lists its second row before the first: it mapped both
\* and wrote the dataset over the one of the first run.
C24_Witness ==
    /\ exit = "ok"
    /\ runs = 2
    /\ \E t \in KeepingTables :
         /\ Len(old_dataset[t]) = 2
         /\ to_int(old_dataset[t][1].id) = Some(2)
         /\ to_int(old_dataset[t][2].id) = Some(1)
         /\ Len(maps[t].mapped) = 2
         /\ Len(new_dataset[t]) = 2

\* C25: after a run of the stream_groups migration that ends normally, the
\* parent_id of every line of the dataset is absent, 0, or the id of a
\* line of the dataset, that is of a stream group mapped in the run.
C25_ParentIsMapped ==
    (focus = "stream_groups" /\ exit = "ok") =>
       \A i \in DOMAIN new_dataset.stream_groups :
          \/ OrZero(to_int(new_dataset.stream_groups[i].parent_id)) = 0
          \/ \E n \in DOMAIN maps.stream_groups.mapped :
                maps.stream_groups.mapped[n].new_id
                   = to_int(new_dataset.stream_groups[i].parent_id)

----------------------------------------------------------------------------
(* Properties of the analytics groups (SpecCalls).                         *)

\* The groups come in (plugin name, stream group id) order.
GroupBefore(a, b) ==
    \/ TextLess(a.plugin_name, b.plugin_name)
    \/ a.plugin_name = b.plugin_name /\ a.old_stream_group_id < b.old_stream_group_id

\* The parent stream group of the stream group a group was cloned from,
\* 0 when it has none.
ParentStreamGroup(group, entries) ==
    (CHOOSE e \in Range(entries) : e.old_id = group.old_stream_group_id).new_parent_id

\* C26: build_analytics_groups returns one group for every pair of a
\* plugin name and a stream group, with the ids 1, 2, ... in (plugin name,
\* stream group id) order, and the parent_id of a group is 0 or the id of
\* the group of the same plugin cloned from the parent stream group.
C26_AnalyticsGroupParent ==
    result.k = "groups" =>
       /\ Len(result.groups) = Cardinality(call.arg.plugin_names) * Len(call.arg.entries)
       /\ \A n \in DOMAIN result.groups : result.groups[n].id = n
       /\ \A i, j \in DOMAIN result.groups :
             i < j => GroupBefore(result.groups[i], result.groups[j])
       /\ \A n \in DOMAIN result.groups :
             \/ result.groups[n].parent_id = 0
             \/ \E m \in DOMAIN result.groups :
                   /\ result.groups[m].id = result.groups[n].parent_id
                   /\ result.groups[m].plugin_name = result.groups[n].plugin_name
                   /\ result.groups[m].old_stream_group_id
                         = ParentStreamGroup(result.groups[n], call.arg.entries)

----------------------------------------------------------------------------
(* Properties of the list permissions (SpecCalls).                         *)

\* The identifiers of the new side: those the user map gives, and the
\* fallback 1.
NewSideUsers(user_map) == {user_map[u] : u \in DOMAIN user_map} \cup {1}

\* C29: the creator_id that a list record of the ALPR or of the face
\* migration carries, when it is a number or the text of a number, is an
\* identifier of the new side: the value of the user map for the legacy
\* creator, or the fallback.
C29_NoLegacyCreator ==
    (result.k = "creator_id" /\ CreatorInt(result.value).k = "int")
    => (result.value.k = "num" /\ result.value.v \in NewSideUsers(call.arg.user_map))

----------------------------------------------------------------------------
(* Properties of consecutive runs (Spec).                                  *)

\* The pairs of a legacy id and the new id that the artifact gives for it.
IdPairs(artifact) ==
    {<<artifact.mapped[i].old_id, artifact.mapped[i].new_id>> : i \in DOMAIN artifact.mapped}

\* C27: a run that follows a run over the same legacy input and the same
\* dependency maps leaves in every mapping artifact the new_id of every
\* legacy id as the previous run wrote it.
C27_MapStableAcrossRuns ==
    [][(exit = "ok" /\ exit' = "ok") =>
          \A t \in Migrated : IdPairs(maps'[t]) = IdPairs(maps[t])]_vars

\* The tables of the ALPR migration.
AlprTables == {"alpr_lists", "alpr_list_items"}

\* C30: a run of the ALPR migration that follows a run over the same
\* legacy input and dependency maps writes the dataset, the statement and
\* the artifact that the previous run wrote, for both tables.
C30_AlprFixedPoint ==
    [][(focus = "alpr" /\ exit = "ok" /\ exit' = "ok") =>
          \A t \in AlprTables :
             /\ new_dataset'[t] = new_dataset[t]
             /\ sql'[t] = sql[t]
             /\ maps'[t] = maps[t]]_vars

============================================================================
